---- MODULE Spec2Model ----
(***************************************************************************)
(* McpClientManager (src/src/runtime/mcp_client.py) and McpConfig          *)
(* (src/src/runtime/config.py) as a state machine.                         *)
(*                                                                         *)
(* Strings are sequences of one-character strings, so that splitting a    *)
(* tool identifier at "__" and trimming a command are computed.            *)
(* A coroutine runs atomically from one await to the next: every action   *)
(* below is the code between two suspension points of one call.           *)
(***************************************************************************)
EXTENDS Integers, Sequences, FiniteSets, TLC

\* ------------------------------------------------------------------ bounds
MaxSessions == 2
MaxIdLen == 5
MaxTextLen == 3
MaxInstances == 2
MaxNameParts == 2
MaxDescParts == 2
MaxTools == 2
MaxNameLen == 3

\* ------------------------------------------------------------- characters
Chars == {"a", "_"}
Space == " "

Str(n) == UNION {[1..k -> Chars] : k \in 0..n}

\* the tool identifiers a caller may pass
Identifiers == Str(MaxIdLen)

Range(s) == {s[i] : i \in 1..Len(s)}

EmptyMap == <<>>

Put(m, k, v) == [x \in (DOMAIN m) \cup {k} |-> IF x = k THEN v ELSE m[x]]

\* ------------------------------------------------------- str.strip, split
\* str.strip(): drop the whitespace at both ends
Strip(s) ==
  LET idx == {i \in 1..Len(s) : s[i] # Space}
  IN IF idx = {} THEN <<>>
     ELSE LET lo == CHOOSE i \in idx : \A j \in idx : i <= j
              hi == CHOOSE i \in idx : \A j \in idx : j <= i
          IN SubSeq(s, lo, hi)

\* variant: looks for a single underscore
HasSepSingle(s) == \E i \in 1..Len(s) : s[i] = "_"

\* "__" in tool_identifier
HasSep(s) == \E i \in 1..(Len(s) - 1) : s[i] = "_" /\ s[i + 1] = "_"

\* tool_identifier.split("__", 1): the parts, cut at the first occurrence
SplitId(s) ==
  LET at == {i \in 1..(Len(s) - 1) : s[i] = "_" /\ s[i + 1] = "_"}
  IN IF at = {} THEN <<s>>
     ELSE LET i == CHOOSE k \in at : \A j \in at : k <= j
          IN <<SubSeq(s, 1, i - 1), SubSeq(s, i + 2, Len(s))>>

\* ------------------------------------------------------------ config.py
SrvA == <<"a">>
SrvAA == <<"a", "a">>
Cmd == <<"x">>
CmdPadded == <<" ", "x", " ">>
CmdBlank == <<" ">>

Entry(n, c, d) == [name |-> n, command |-> c, disabled |-> d]

\* the configuration files a caller may point initialize at
Sources ==
  { [exists |-> FALSE, readable |-> FALSE, wellformed |-> FALSE, servers |-> <<>>],
    [exists |-> TRUE, readable |-> FALSE, wellformed |-> FALSE, servers |-> <<>>],
    [exists |-> TRUE, readable |-> TRUE, wellformed |-> FALSE, servers |-> <<>>],
    [exists |-> TRUE, readable |-> TRUE, wellformed |-> TRUE, servers |-> <<>>],
    [exists |-> TRUE, readable |-> TRUE, wellformed |-> TRUE,
     servers |-> <<Entry(SrvA, CmdBlank, FALSE)>>],
    [exists |-> TRUE, readable |-> TRUE, wellformed |-> TRUE,
     servers |-> <<Entry(SrvA, CmdPadded, FALSE)>>],
    [exists |-> TRUE, readable |-> TRUE, wellformed |-> TRUE,
     servers |-> <<Entry(SrvA, Cmd, TRUE)>>],
    [exists |-> TRUE, readable |-> TRUE, wellformed |-> TRUE,
     servers |-> <<Entry(SrvA, Cmd, FALSE), Entry(SrvAA, Cmd, FALSE)>>],
    [exists |-> TRUE, readable |-> TRUE, wellformed |-> TRUE,
     servers |-> <<Entry(SrvAA, Cmd, FALSE), Entry(SrvA, Cmd, TRUE)>>] }

\* ServerConfig.command_not_empty
command_not_empty(c) == c # <<>> /\ Strip(c) # <<>>

\* variant: the validator accepts an empty mapping
servers_maybe_empty(servers) == Len(servers) >= 0

\* McpConfig.servers_not_empty
servers_not_empty(servers) == Len(servers) > 0

\* McpConfig.model_validate_json: does the text pass parsing and validation
Validates(src) ==
  /\ src.wellformed
  /\ \A i \in 1..Len(src.servers) : command_not_empty(src.servers[i].command)
  /\ servers_not_empty(src.servers)

NoConfig == [loaded |-> FALSE, mcpServers |-> <<>>]

\* McpConfig.model_validate_json: the validated model (commands trimmed)
model_validate_json(src) ==
  [loaded |-> TRUE,
   mcpServers |-> [i \in 1..Len(src.servers) |->
                     [src.servers[i] EXCEPT !.command = Strip(@)]]]

\* variant: an unknown name falls back to the first entry
get_server_default(cfg, name) ==
  LET at == {k \in 1..Len(cfg.mcpServers) : cfg.mcpServers[k].name = name}
  IN IF at = {} THEN <<cfg.mcpServers[1]>>
     ELSE <<cfg.mcpServers[CHOOSE k \in at : TRUE]>>

\* McpConfig.get_server: dict.get; <<>> is None, <<e>> the entry found
get_server(cfg, name) ==
  LET at == {k \in 1..Len(cfg.mcpServers) : cfg.mcpServers[k].name = name}
  IN IF at = {} THEN <<>> ELSE <<cfg.mcpServers[CHOOSE k \in at : TRUE]>>

\* variant: the disabled flag is not consulted
get_all_servers(cfg) == cfg.mcpServers

\* McpConfig.get_enabled_servers: the enabled entries, in dict order
get_enabled_servers(cfg) == SelectSeq(cfg.mcpServers, LAMBDA e : ~e.disabled)

\* --------------------------------------------------------- ConnectionState
UNINITIALIZED == "uninitialized"
INITIALIZED == "initialized"
CONNECTED == "connected"

state_order == <<UNINITIALIZED, INITIALIZED, CONNECTED>>

StateIndex(s) == CHOOSE i \in 1..Len(state_order) : state_order[i] = s

\* variant: the exact-state check never raises
validate_state_never(cur, required) == "none"

\* _validate_state: the exception it raises, "none" when it returns
validate_state(cur, required) ==
  IF cur # required THEN "ConfigurationError" ELSE "none"

\* variant: off by one, "uninitialized" passes a minimum of "initialized"
validate_state_at_least_off(cur, minimum) ==
  IF StateIndex(cur) + 1 < StateIndex(minimum) THEN "ConfigurationError"
  ELSE "none"

\* _validate_state_at_least: the exception it raises, "none" when it returns
validate_state_at_least(cur, minimum) ==
  IF StateIndex(cur) < StateIndex(minimum) THEN "ConfigurationError" ELSE "none"

\* variant: a connection leaves the state as it is
mark_connected_never(cur) == cur

\* _mark_connected
mark_connected(cur) == IF cur = INITIALIZED THEN CONNECTED ELSE cur

\* ------------------------------------------------------ transport (external)
ToolA == <<"a">>
ToolUA == <<"_", "a">>

\* what a session's list_tools() may answer
ListResults ==
  { [ok |-> FALSE, hasTools |-> FALSE, tools |-> <<>>],
    [ok |-> TRUE, hasTools |-> FALSE, tools |-> <<ToolA>>],
    [ok |-> TRUE, hasTools |-> TRUE, tools |-> <<>>],
    [ok |-> TRUE, hasTools |-> TRUE, tools |-> <<ToolA>>],
    [ok |-> TRUE, hasTools |-> TRUE, tools |-> <<ToolUA, ToolA>>] }

\* result.tools if hasattr(result, "tools") else []
ToolsOf(r) == IF r.hasTools THEN r.tools ELSE <<>>

Event(e, s, sid) == [ev |-> e, server |-> s, sid |-> sid, out |-> "pending"]

SetLast(tr, o, sid) ==
  [tr EXCEPT ![Len(tr)] = [@ EXCEPT !.out = o, !.sid = sid]]

\* ------------------------------------------------------------------- state
Flow1 == "f1"
Flow2 == "f2"
Flows == {Flow1, Flow2}

VARIABLES
  state,          \* self._state
  clients,        \* self._clients: server name -> session
  tool_cache,     \* self._tool_cache: server name -> tools
  config,         \* self._config
  read_streams,   \* self._read_streams
  write_streams,  \* self._write_streams
  pc,             \* per flow: "idle" or the await it is suspended at
  loc,            \* per flow: the locals of the suspended call
  trace,          \* per flow: the transport calls of its current/last call
  ret,            \* per flow: outcome of its last completed call
  nextSid,        \* identity of the next transport the environment creates
  opened,         \* transports entered and not exited: id -> server spawned
  tool_result,    \* call_tool: the session's response and what is made of it
  classified,     \* classify_tool: its arguments and its result
  discovery,      \* build_discovery_config: its arguments and its result
  harness,        \* harness.main: where the process is, and its exit status
  singleton,      \* get_mcp_client_manager: the lru_cache and its callers
  wrapper         \* a generated wrapper: its identifier and how it is parsed

mgr == <<state, clients, tool_cache, config, read_streams, write_streams>>

\* what the manager's own calls never touch
aux == <<tool_result, classified, discovery, harness, singleton, wrapper>>

vars == <<state, clients, tool_cache, config, read_streams, write_streams,
          pc, loc, trace, ret, nextSid, opened, aux>>

NoSource == [exists |-> FALSE, readable |-> FALSE, wellformed |-> FALSE,
             servers |-> <<>>]

NoLoc == [n |-> 0, op |-> "none", src |-> NoSource, server |-> <<>>, tool |-> <<>>,
          rest |-> <<>>, all_tools |-> <<>>, client |-> 0]

NoRet == [n |-> 0, op |-> "none", status |-> "none", msg |-> "none",
          value |-> <<>>]

\* McpClientManager.__init__, and no call in progress
InitManager ==
  /\ state = UNINITIALIZED
  /\ clients = EmptyMap
  /\ tool_cache = EmptyMap
  /\ config = NoConfig
  /\ read_streams = EmptyMap
  /\ write_streams = EmptyMap
  /\ pc = [f \in Flows |-> "idle"]
  /\ loc = [f \in Flows |-> NoLoc]
  /\ trace = [f \in Flows |-> <<>>]
  /\ ret = [f \in Flows |-> NoRet]
  /\ nextSid = 1
  /\ opened = EmptyMap

\* nothing outside the manager is running
Idle == [pc |-> "off"]

Init ==
  /\ InitManager
  /\ tool_result = Idle
  /\ classified = Idle
  /\ discovery = Idle
  /\ harness = Idle
  /\ singleton = Idle
  /\ wrapper = Idle

\* ------------------------------------------------- control of one coroutine
\* the call ends by raising `status`; msg names the raise statement
Raise(l, tr, status, msg) ==
  [pc |-> "idle", loc |-> NoLoc, trace |-> tr, done |-> TRUE,
   ret |-> [n |-> l.n, op |-> l.op, status |-> status, msg |-> msg,
            value |-> <<>>]]

\* the call ends by returning v
Return(l, tr, v) ==
  [pc |-> "idle", loc |-> NoLoc, trace |-> tr, done |-> TRUE,
   ret |-> [n |-> l.n, op |-> l.op, status |-> "ok", msg |-> "none",
            value |-> v]]

\* the call suspends at await `at`
Await(at, l, tr) ==
  [pc |-> at, loc |-> l, trace |-> tr, done |-> FALSE, ret |-> NoRet]

RECURSIVE NextServer(_, _, _, _)

\* variant: list_all_tools lets the exception out as call_tool does
Throw_propagating(l, tr, cl, tc, status, msg) == Raise(l, tr, status, msg)

\* an exception inside the body: list_all_tools catches it and goes on with
\* the next server, call_tool lets it out
Throw(l, tr, cl, tc, status, msg) ==
  IF l.op = "list_all_tools" THEN NextServer(l, tr, cl, tc)
  ELSE Raise(l, tr, status, msg)

\* variant: the tool name is not looked up in the catalog
GotTools_unchecked(l, tr, cl, tc, tools) ==
  IF l.op = "list_all_tools"
  THEN NextServer([l EXCEPT !.all_tools = @ \o tools], tr, cl, tc)
  ELSE IF l.server \notin DOMAIN cl
  THEN Raise(l, tr, "ToolExecutionError", "execute")
  ELSE Await("dispatch", [l EXCEPT !.client = cl[l.server]],
             Append(tr, Event("call_tool", l.server, cl[l.server])))

\* variant: list_all_tools puts a server's tools in front of the earlier ones
GotTools_prepending(l, tr, cl, tc, tools) ==
  IF l.op = "list_all_tools"
  THEN NextServer([l EXCEPT !.all_tools = tools \o @], tr, cl, tc)
  ELSE IF l.tool \notin Range(tools)
  THEN Raise(l, tr, "ToolNotFoundError", "no_tool")
  ELSE IF l.server \notin DOMAIN cl
  THEN Raise(l, tr, "ToolExecutionError", "execute")
  ELSE Await("dispatch", [l EXCEPT !.client = cl[l.server]],
             Append(tr, Event("call_tool", l.server, cl[l.server])))

\* call_tool from "tool_names = ..." to "await client.call_tool", and
\* list_all_tools from "all_tools.extend(tools)" on
GotTools(l, tr, cl, tc, tools) ==
  IF l.op = "list_all_tools"
  THEN NextServer([l EXCEPT !.all_tools = @ \o tools], tr, cl, tc)
  ELSE IF l.tool \notin Range(tools)
  THEN Raise(l, tr, "ToolNotFoundError", "no_tool")
  ELSE IF l.server \notin DOMAIN cl
  THEN Raise(l, tr, "ToolExecutionError", "execute")
  ELSE Await("dispatch", [l EXCEPT !.client = cl[l.server]],
             Append(tr, Event("call_tool", l.server, cl[l.server])))

\* variant: the cache is not consulted
get_server_tools_uncached(l, tr, cl, tc) ==
  IF l.server \notin DOMAIN cl
  THEN Throw(l, tr, cl, tc, "ServerConnectionError", "not_connected")
  ELSE Await("list", [l EXCEPT !.client = cl[l.server]],
             Append(tr, Event("list_tools", l.server, cl[l.server])))

\* _get_server_tools up to "await client.list_tools()"
get_server_tools(l, tr, cl, tc) ==
  IF l.server \in DOMAIN tc THEN GotTools(l, tr, cl, tc, tc[l.server])
  ELSE IF l.server \notin DOMAIN cl
  THEN Throw(l, tr, cl, tc, "ServerConnectionError", "not_connected")
  ELSE Await("list", [l EXCEPT !.client = cl[l.server]],
             Append(tr, Event("list_tools", l.server, cl[l.server])))

\* _connect_to_server up to "await stdio_ctx.__aenter__()"
connect_to_server(l, tr, cl, tc) ==
  IF l.server \in DOMAIN cl THEN get_server_tools(l, tr, cl, tc)
  ELSE Await("spawn", l, Append(tr, Event("spawn", l.server, 0)))

\* variant: connects whether or not a session is registered
AlwaysConnect(l, tr, cl, tc) ==
  Await("spawn", l, Append(tr, Event("spawn", l.server, 0)))

\* "if server_name not in self._clients: await self._connect_to_server(...)"
\* followed by "await self._get_server_tools(server_name)"
LazyConnect(l, tr, cl, tc) ==
  IF l.server \notin DOMAIN cl THEN connect_to_server(l, tr, cl, tc)
  ELSE get_server_tools(l, tr, cl, tc)

\* list_all_tools: the next turn of "for server_name, ... in enabled_servers"
NextServer(l, tr, cl, tc) ==
  IF l.rest = <<>> THEN Return(l, tr, l.all_tools)
  ELSE LazyConnect([l EXCEPT !.server = Head(l.rest), !.rest = Tail(l.rest)],
                   tr, cl, tc)

Resume(f, c) ==
  /\ pc' = [pc EXCEPT ![f] = c.pc]
  /\ loc' = [loc EXCEPT ![f] = c.loc]
  /\ trace' = [trace EXCEPT ![f] = c.trace]
  /\ ret' = IF c.done THEN [ret EXCEPT ![f] = c.ret] ELSE ret

\* a call that may connect starts, while the environment has transports left
Start(f) ==
  /\ pc[f] = "idle"
  /\ nextSid <= MaxSessions

\* calls are counted modulo 2 per flow, which tells a call from the one
\* before it
Locals(f, op) == [NoLoc EXCEPT !.n = 1 - ret[f].n, !.op = op]

\* ------------------------------------------------------------- initialize
initialize(f, src) ==
  /\ Start(f)
  /\ LET l == [Locals(f, "initialize") EXCEPT !.src = src]
         chk == validate_state(state, UNINITIALIZED)
     IN IF chk # "none" THEN Resume(f, Raise(l, <<>>, chk, "state"))
        ELSE IF ~src.exists
        THEN Resume(f, Raise(l, <<>>, "ConfigurationError", "not_found"))
        ELSE Resume(f, Await("read", l, <<>>))
  /\ UNCHANGED <<mgr, nextSid, opened>>

\* initialize from the end of "await f.read()"
initialize_read(f) ==
  /\ pc[f] = "read"
  /\ LET l == loc[f]
     IN IF l.src.readable /\ Validates(l.src)
        THEN /\ config' = model_validate_json(l.src)
             /\ state' = INITIALIZED
             /\ Resume(f, Return(l, trace[f], <<>>))
        ELSE /\ UNCHANGED <<config, state>>
             /\ Resume(f, Raise(l, trace[f], "ConfigurationError", "load"))
  /\ UNCHANGED <<clients, tool_cache, read_streams, write_streams,
                 nextSid, opened>>

\* -------------------------------------------------------------- call_tool
call_tool(f, id) ==
  /\ Start(f)
  /\ LET l == Locals(f, "call_tool")
         chk == validate_state_at_least(state, INITIALIZED)
     IN IF chk # "none" THEN Resume(f, Raise(l, <<>>, chk, "state"))
        ELSE IF ~config.loaded
        THEN Resume(f, Raise(l, <<>>, "ConfigurationError", "not_loaded"))
        ELSE IF ~HasSep(id)
        THEN Resume(f, Raise(l, <<>>, "ToolNotFoundError", "identifier"))
        ELSE IF Len(SplitId(id)) # 2
        THEN Resume(f, Raise(l, <<>>, "ValueError", "unpack"))
        ELSE LET p == SplitId(id)
                 l2 == [l EXCEPT !.server = p[1], !.tool = p[2]]
                 server_config == get_server(config, p[1])
             IN IF server_config = <<>>
                THEN Resume(f, Raise(l2, <<>>, "ToolNotFoundError", "no_server"))
                ELSE IF server_config[1].disabled
                THEN Resume(f, Raise(l2, <<>>, "ToolNotFoundError", "disabled"))
                ELSE Resume(f, LazyConnect(l2, <<>>, clients, tool_cache))
  /\ UNCHANGED <<mgr, nextSid, opened>>

\* ---------------------------------------------------------- list_all_tools
list_all_tools(f) ==
  /\ Start(f)
  /\ LET l == Locals(f, "list_all_tools")
         chk == validate_state_at_least(state, INITIALIZED)
     IN IF chk # "none" THEN Resume(f, Raise(l, <<>>, chk, "state"))
        ELSE IF ~config.loaded
        THEN Resume(f, Raise(l, <<>>, "ConfigurationError", "not_loaded"))
        ELSE LET enabled == get_enabled_servers(config)
                 names == [i \in 1..Len(enabled) |-> enabled[i].name]
             IN IF enabled = <<>> THEN Resume(f, Return(l, <<>>, <<>>))
                ELSE Resume(f, NextServer([l EXCEPT !.rest = names], <<>>,
                                          clients, tool_cache))
  /\ UNCHANGED <<mgr, nextSid, opened>>

\* variant: a failed spawn drops every session and every cached catalog
connect_spawned_resetting(f) ==
  /\ pc[f] = "spawn"
  /\ \E ok \in BOOLEAN :
       LET l == loc[f]
       IN IF ok
          THEN /\ read_streams' = Put(read_streams, l.server, nextSid)
               /\ write_streams' = Put(write_streams, l.server, nextSid)
               /\ opened' = Put(opened, nextSid, l.server)
               /\ nextSid' = nextSid + 1
               /\ UNCHANGED <<clients, tool_cache>>
               /\ Resume(f, Await("handshake", [l EXCEPT !.client = nextSid],
                                  Append(SetLast(trace[f], "ok", nextSid),
                                         Event("handshake", l.server, nextSid))))
          ELSE /\ UNCHANGED <<read_streams, write_streams, opened, nextSid>>
               /\ clients' = EmptyMap
               /\ tool_cache' = EmptyMap
               /\ Resume(f, Throw(l, SetLast(trace[f], "failed", 0), clients',
                                  tool_cache', "ServerConnectionError",
                                  "connect"))
  /\ UNCHANGED <<state, config>>

\* variant: a failed spawn is tried once more
connect_spawned_retrying(f) ==
  /\ pc[f] = "spawn"
  /\ \E ok \in BOOLEAN :
       LET l == loc[f]
       IN IF ok
          THEN /\ read_streams' = Put(read_streams, l.server, nextSid)
               /\ write_streams' = Put(write_streams, l.server, nextSid)
               /\ opened' = Put(opened, nextSid, l.server)
               /\ nextSid' = nextSid + 1
               /\ Resume(f, Await("handshake", [l EXCEPT !.client = nextSid],
                                  Append(SetLast(trace[f], "ok", nextSid),
                                         Event("handshake", l.server, nextSid))))
          ELSE /\ UNCHANGED <<read_streams, write_streams, opened, nextSid>>
               /\ IF \E i \in 1..(Len(trace[f]) - 1) :
                       /\ trace[f][i].ev = "spawn"
                       /\ trace[f][i].server = l.server
                  THEN Resume(f, Throw(l, SetLast(trace[f], "failed", 0),
                                       clients, tool_cache,
                                       "ServerConnectionError", "connect"))
                  ELSE Resume(f, Await("spawn", l,
                                       Append(SetLast(trace[f], "failed", 0),
                                              Event("spawn", l.server, 0))))
  /\ UNCHANGED <<state, clients, tool_cache, config>>

\* ------------------------------------------------------ _connect_to_server
\* from the end of "await stdio_ctx.__aenter__()" to the next await
connect_spawned(f) ==
  /\ pc[f] = "spawn"
  /\ \E ok \in BOOLEAN :
       LET l == loc[f]
       IN IF ok
          THEN /\ read_streams' = Put(read_streams, l.server, nextSid)
               /\ write_streams' = Put(write_streams, l.server, nextSid)
               /\ opened' = Put(opened, nextSid, l.server)
               /\ nextSid' = nextSid + 1
               /\ Resume(f, Await("handshake", [l EXCEPT !.client = nextSid],
                                  Append(SetLast(trace[f], "ok", nextSid),
                                         Event("handshake", l.server, nextSid))))
          ELSE /\ UNCHANGED <<read_streams, write_streams, opened, nextSid>>
               /\ Resume(f, Throw(l, SetLast(trace[f], "failed", 0), clients,
                                  tool_cache, "ServerConnectionError",
                                  "connect"))
  /\ UNCHANGED <<state, clients, tool_cache, config>>

\* variant: the session is registered before the handshake is awaited
connect_handshaken_eager(f) ==
  /\ pc[f] = "handshake"
  /\ \E ok \in BOOLEAN :
       LET l == loc[f]
           tr == SetLast(trace[f], IF ok THEN "ok" ELSE "failed", l.client)
       IN /\ clients' = Put(clients, l.server, l.client)
          /\ state' = mark_connected(state)
          /\ IF ok
             THEN Resume(f, get_server_tools(l, tr, clients', tool_cache))
             ELSE Resume(f, Throw(l, tr, clients', tool_cache,
                                  "ServerConnectionError", "connect"))
  /\ UNCHANGED <<tool_cache, config, read_streams, write_streams,
                 nextSid, opened>>

\* variant: a session already registered for the server is kept
connect_handshaken_keeping(f) ==
  /\ pc[f] = "handshake"
  /\ \E ok \in BOOLEAN :
       LET l == loc[f]
           tr == SetLast(trace[f], IF ok THEN "ok" ELSE "failed", l.client)
       IN IF ok
          THEN /\ clients' = IF l.server \in DOMAIN clients THEN clients
                             ELSE Put(clients, l.server, l.client)
               /\ state' = mark_connected(state)
               /\ Resume(f, get_server_tools(l, tr, clients', tool_cache))
          ELSE /\ UNCHANGED <<clients, state>>
               /\ Resume(f, Throw(l, tr, clients, tool_cache,
                                  "ServerConnectionError", "connect"))
  /\ UNCHANGED <<tool_cache, config, read_streams, write_streams,
                 nextSid, opened>>

\* from the end of "await client.initialize()" to the next await; the await
\* of session.__aenter__() before it is part of the same wait, the manager
\* reads and writes nothing between the two
connect_handshaken(f) ==
  /\ pc[f] = "handshake"
  /\ \E ok \in BOOLEAN :
       LET l == loc[f]
           tr == SetLast(trace[f], IF ok THEN "ok" ELSE "failed", l.client)
       IN IF ok
          THEN /\ clients' = Put(clients, l.server, l.client)
               /\ state' = mark_connected(state)
               /\ Resume(f, get_server_tools(l, tr, clients', tool_cache))
          ELSE /\ UNCHANGED <<clients, state>>
               /\ Resume(f, Throw(l, tr, clients, tool_cache,
                                  "ServerConnectionError", "connect"))
  /\ UNCHANGED <<tool_cache, config, read_streams, write_streams,
                 nextSid, opened>>

\* variant: a failed list_tools drops the server's session
tools_listed_disconnecting(f) ==
  /\ pc[f] = "list"
  /\ \E r \in ListResults :
       LET l == loc[f]
           tr == SetLast(trace[f], IF r.ok THEN "ok" ELSE "failed", l.client)
       IN IF r.ok
          THEN /\ tool_cache' = Put(tool_cache, l.server, ToolsOf(r))
               /\ UNCHANGED <<state, clients>>
               /\ Resume(f, GotTools(l, tr, clients, tool_cache', ToolsOf(r)))
          ELSE /\ UNCHANGED tool_cache
               /\ clients' = [s \in (DOMAIN clients) \ {l.server} |-> clients[s]]
               /\ state' = IF DOMAIN clients' = {} THEN INITIALIZED ELSE state
               /\ Resume(f, Throw(l, tr, clients', tool_cache,
                                  "ServerConnectionError", "list"))
  /\ UNCHANGED <<config, read_streams, write_streams, nextSid, opened>>

\* ------------------------------------------------------- _get_server_tools
\* from the end of "await client.list_tools()" to the next await
tools_listed(f) ==
  /\ pc[f] = "list"
  /\ \E r \in ListResults :
       LET l == loc[f]
           tr == SetLast(trace[f], IF r.ok THEN "ok" ELSE "failed", l.client)
       IN IF r.ok
          THEN /\ tool_cache' = Put(tool_cache, l.server, ToolsOf(r))
               /\ Resume(f, GotTools(l, tr, clients, tool_cache', ToolsOf(r)))
          ELSE /\ UNCHANGED tool_cache
               /\ Resume(f, Throw(l, tr, clients, tool_cache,
                                  "ServerConnectionError", "list"))
  /\ UNCHANGED <<state, clients, config, read_streams, write_streams,
                 nextSid, opened>>

\* ------------------------------------------- call_tool: the defensive unwrap
\* Python values: every value is a record of the same shape; an attribute a
\* value does not expose is <<>>, one it exposes is <<its value>>
Blank == [kind |-> "none", str |-> <<>>, items |-> <<>>, value |-> <<>>,
          content |-> <<>>, text |-> <<>>]

Number == [Blank EXCEPT !.kind = "int"]

String(s) == [Blank EXCEPT !.kind = "str", !.str = s]

Mapping == [Blank EXCEPT !.kind = "dict"]

List(items) == [Blank EXCEPT !.kind = "list", !.items = items]

\* an object exposing `value`, `content`, `text`, or none of them
Object(value, content, text) ==
  [Blank EXCEPT !.kind = "object", !.value = value, !.content = content,
                !.text = text]

TextChars == {Space, "[", "]", "{", "}", "a"}

Texts == UNION {[1..k -> TextChars] : k \in 0..MaxTextLen}

\* json.loads on a text without surrounding whitespace: over TextChars the
\* documents are {} and the arrays of one document or none; <<>> is
\* JSONDecodeError
RECURSIVE json_value(_)
json_value(s) ==
  IF Len(s) >= 2 /\ s[1] = "{" /\ s[Len(s)] = "}"
  THEN IF Strip(SubSeq(s, 2, Len(s) - 1)) = <<>> THEN <<Mapping>> ELSE <<>>
  ELSE IF Len(s) >= 2 /\ s[1] = "[" /\ s[Len(s)] = "]"
  THEN LET inner == Strip(SubSeq(s, 2, Len(s) - 1))
       IN IF inner = <<>> THEN <<List(<<>>)>>
          ELSE LET e == json_value(inner)
               IN IF e = <<>> THEN <<>> ELSE <<List(<<e[1]>>)>>
  ELSE <<>>

\* json.loads: whitespace around the document is allowed
json_loads(s) == json_value(Strip(s))

\* text_content.strip().startswith(("{", "["))
looks_like_json(s) == Strip(s) # <<>> /\ Strip(s)[1] \in {"{", "["}

\* variant: content is preferred to value
unwrap_base_content_first(result) ==
  IF result.content # <<>> THEN result.content[1]
  ELSE IF result.value # <<>> THEN result.value[1]
  ELSE result

\* "if hasattr(result, "value") ... elif hasattr(result, "content") ... else"
unwrap_base(result) ==
  IF result.value # <<>> THEN result.value[1]
  ELSE IF result.content # <<>> THEN result.content[1]
  ELSE result

\* variant: a text that does not parse is returned trimmed
unwrap_text_trimming(unwrapped) ==
  IF unwrapped.kind = "list" /\ Len(unwrapped.items) > 0
       /\ unwrapped.items[1].text # <<>>
  THEN LET text_content == unwrapped.items[1].text[1]
       IN IF text_content.kind = "str" /\ looks_like_json(text_content.str)
          THEN IF json_loads(text_content.str) # <<>>
               THEN json_loads(text_content.str)[1]
               ELSE String(Strip(text_content.str))
          ELSE text_content
  ELSE unwrapped

\* variant: the last element of the list is inspected
unwrap_text_last(unwrapped) ==
  IF unwrapped.kind = "list" /\ Len(unwrapped.items) > 0
       /\ unwrapped.items[Len(unwrapped.items)].text # <<>>
  THEN LET text_content == unwrapped.items[Len(unwrapped.items)].text[1]
       IN IF text_content.kind = "str" /\ looks_like_json(text_content.str)
          THEN IF json_loads(text_content.str) # <<>>
               THEN json_loads(text_content.str)[1]
               ELSE text_content
          ELSE text_content
  ELSE unwrapped

\* variant: a plain string that looks like JSON is parsed too
unwrap_text_parsing_strings(unwrapped) ==
  IF unwrapped.kind = "list" /\ Len(unwrapped.items) > 0
       /\ unwrapped.items[1].text # <<>>
  THEN LET text_content == unwrapped.items[1].text[1]
       IN IF text_content.kind = "str" /\ looks_like_json(text_content.str)
          THEN IF json_loads(text_content.str) # <<>>
               THEN json_loads(text_content.str)[1]
               ELSE text_content
          ELSE text_content
  ELSE IF unwrapped.kind = "str" /\ json_loads(unwrapped.str) # <<>>
  THEN json_loads(unwrapped.str)[1]
  ELSE unwrapped

\* "if isinstance(unwrapped, list) and len(unwrapped) > 0: ..." to
\* "return unwrapped"
unwrap_text(unwrapped) ==
  IF unwrapped.kind = "list" /\ Len(unwrapped.items) > 0
       /\ unwrapped.items[1].text # <<>>
  THEN LET text_content == unwrapped.items[1].text[1]
       IN IF text_content.kind = "str" /\ looks_like_json(text_content.str)
          THEN IF json_loads(text_content.str) # <<>>
               THEN json_loads(text_content.str)[1]
               ELSE text_content
          ELSE text_content
  ELSE unwrapped

\* call_tool from the return of "await client.call_tool" to its return
unwrap(result) == unwrap_text(unwrap_base(result))

\* the generated wrapper: unwrapped = getattr(result, "value", result)
wrapper_unwrap(result) ==
  IF result.value # <<>> THEN result.value[1] ELSE result

\* what a session may answer
TextValues == {String(t) : t \in Texts} \cup {Number}

FirstItems ==
  {Object(<<>>, <<>>, <<tv>>) : tv \in TextValues}
    \cup {Object(<<>>, <<>>, <<>>), Mapping}

LaterItems ==
  {Object(<<>>, <<>>, <<String(<<"a">>)>>), Object(<<>>, <<>>, <<>>)}

\* the first elements of the lists that have a second element
ShortFirstItems ==
  {i \in FirstItems :
     i.text # <<>> /\ i.text[1].kind = "str" => Len(i.text[1].str) <= 1}

Pairs == {List(<<i, j>>) : i \in ShortFirstItems, j \in LaterItems}

Lists == {List(<<>>)} \cup {List(<<i>>) : i \in FirstItems} \cup Pairs

PlainValues ==
  {Number, Mapping, String(<<"a">>), String(<<"[", "]">>),
   Object(<<>>, <<>>, <<>>)}

BaseValues == Lists \cup PlainValues

\* the values of an answer that has both `value` and `content`
ShortValues == {List(<<>>)} \cup Pairs \cup PlainValues

OtherValues == {List(<<Object(<<>>, <<>>, <<String(<<"a">>)>>)>>), Number}

Responses ==
  BaseValues
    \cup {Object(<<v>>, <<>>, <<>>) : v \in BaseValues}
    \cup {Object(<<>>, <<c>>, <<>>) : c \in BaseValues}
    \cup {Object(<<v>>, <<c>>, <<>>) : v \in ShortValues, c \in OtherValues}
    \cup {Object(<<v>>, <<c>>, <<>>) : v \in OtherValues, c \in ShortValues}

\* the answers of a few sessions
SampleResponses ==
  {Number,
   Object(<<>>, <<List(<<Object(<<>>, <<>>, <<String(<<"[", "]">>)>>)>>)>>,
          <<>>)}

\* what "await client.call_tool" ends with: <<>> is an exception
Answers == {<<>>} \cup {<<r>> : r \in SampleResponses}

\* variant: a failed tool call drops the server's session and catalog
tool_called_dropping(f) ==
  /\ pc[f] = "dispatch"
  /\ \E answer \in Answers :
       LET l == loc[f]
           ok == answer # <<>>
           tr == SetLast(trace[f], IF ok THEN "ok" ELSE "failed", l.client)
       IN IF ok
          THEN /\ UNCHANGED <<clients, tool_cache>>
               /\ Resume(f, Return(l, tr, unwrap(answer[1])))
          ELSE /\ clients' = [t \in (DOMAIN clients) \ {l.server} |-> clients[t]]
               /\ tool_cache' = [t \in (DOMAIN tool_cache) \ {l.server}
                                   |-> tool_cache[t]]
               /\ Resume(f, Raise(l, tr, "ToolExecutionError", "execute"))
  /\ UNCHANGED <<state, config, read_streams, write_streams, nextSid, opened>>

\* ------------------------------------------- call_tool after the dispatch
\* from the end of "await client.call_tool(tool_name, params)"
tool_called(f) ==
  /\ pc[f] = "dispatch"
  /\ \E answer \in Answers :
       LET l == loc[f]
           ok == answer # <<>>
           tr == SetLast(trace[f], IF ok THEN "ok" ELSE "failed", l.client)
       IN IF ok THEN Resume(f, Return(l, tr, unwrap(answer[1])))
          ELSE Resume(f, Raise(l, tr, "ToolExecutionError", "execute"))
  /\ UNCHANGED <<mgr, nextSid, opened>>

\* ---------------------------------------------------------------- cleanup
\* variant: the session map is not cleared
cleanup_keeping_clients(f) ==
  /\ pc[f] = "idle"
  /\ tool_cache' = EmptyMap
  /\ read_streams' = EmptyMap
  /\ write_streams' = EmptyMap
  /\ config' = NoConfig
  /\ state' = UNINITIALIZED
  /\ Resume(f, Return(Locals(f, "cleanup"), <<>>, <<>>))
  /\ UNCHANGED <<clients, nextSid, opened>>

\* variant: cleanup checks the state first, as call_tool does
cleanup_checking_state(f) ==
  /\ pc[f] = "idle"
  /\ IF validate_state_at_least(state, INITIALIZED) # "none"
     THEN /\ UNCHANGED mgr
          /\ Resume(f, Raise(Locals(f, "cleanup"), <<>>, "ConfigurationError",
                             "state"))
     ELSE /\ clients' = EmptyMap
          /\ tool_cache' = EmptyMap
          /\ read_streams' = EmptyMap
          /\ write_streams' = EmptyMap
          /\ config' = NoConfig
          /\ state' = UNINITIALIZED
          /\ Resume(f, Return(Locals(f, "cleanup"), <<>>, <<>>))
  /\ UNCHANGED <<nextSid, opened>>

\* variant: the tool cache is not cleared
cleanup_keeping_cache(f) ==
  /\ pc[f] = "idle"
  /\ clients' = EmptyMap
  /\ read_streams' = EmptyMap
  /\ write_streams' = EmptyMap
  /\ config' = NoConfig
  /\ state' = UNINITIALIZED
  /\ Resume(f, Return(Locals(f, "cleanup"), <<>>, <<>>))
  /\ UNCHANGED <<tool_cache, nextSid, opened>>

cleanup(f) ==
  /\ pc[f] = "idle"
  /\ clients' = EmptyMap
  /\ tool_cache' = EmptyMap
  /\ read_streams' = EmptyMap
  /\ write_streams' = EmptyMap
  /\ config' = NoConfig
  /\ state' = UNINITIALIZED
  /\ Resume(f, Return(Locals(f, "cleanup"), <<>>, <<>>))
  /\ UNCHANGED <<nextSid, opened>>

\* ------------------------------------------------- the unwrapper alone
\* the session answered `result`
InitUnwrap ==
  /\ InitManager
  /\ tool_result \in {[pc |-> "answered", result |-> r] : r \in Responses}
  /\ classified = Idle
  /\ discovery = Idle
  /\ harness = Idle
  /\ singleton = Idle
  /\ wrapper = Idle

\* call_tool returns what it made of the answer
tool_result_unwrapped ==
  /\ tool_result.pc = "answered"
  /\ tool_result' = [pc |-> "returned", result |-> tool_result.result,
                     unwrapped |-> unwrap(tool_result.result)]
  /\ UNCHANGED <<mgr, pc, loc, trace, ret, nextSid, opened, classified,
                 discovery, harness, singleton, wrapper>>

\* the generated wrapper unwraps what call_mcp_tool returned
wrapper_returned ==
  /\ tool_result.pc = "returned"
  /\ tool_result' = [pc |-> "wrapped", result |-> tool_result.result,
                     unwrapped |-> tool_result.unwrapped,
                     wrapped |-> wrapper_unwrap(tool_result.unwrapped)]
  /\ UNCHANGED <<mgr, pc, loc, trace, ret, nextSid, opened, classified,
                 discovery, harness, singleton, wrapper>>

NextUnwrap == tool_result_unwrapped \/ wrapper_returned

SpecUnwrap == InitUnwrap /\ [][NextUnwrap]_vars

\* ---------------------------------------------------------- specifications
Step(f) ==
  \/ \E src \in Sources : initialize(f, src)
  \/ initialize_read(f)
  \/ \E id \in Identifiers : call_tool(f, id)
  \/ list_all_tools(f)
  \/ connect_spawned(f)
  \/ connect_handshaken(f)
  \/ tools_listed(f)
  \/ tool_called(f)
  \/ cleanup(f)

\* one logical flow of control: calls never overlap
Next == Step(Flow1) /\ UNCHANGED aux

Spec == Init /\ [][Next]_vars

\* ------------------------------------------------------------ properties
\* flow f started a call of `op` in this step
Began(f, op) ==
  /\ pc[f] = "idle"
  /\ \/ pc'[f] = "idle" /\ ret'[f].n # ret[f].n /\ ret'[f].op = op
     \/ pc'[f] # "idle" /\ loc'[f].op = op

\* a call of `op` by flow f ended in this step
Completed(f, op) ==
  pc'[f] = "idle" /\ ret'[f].n # ret[f].n /\ ret'[f].op = op

Cleaned == \E f \in Flows : Completed(f, "cleanup")

\* the transport request flow f issued in this step, if any
NewEvents(f) ==
  IF trace'[f] # trace[f] /\ trace'[f] # <<>>
       /\ trace'[f][Len(trace'[f])].out = "pending"
  THEN {trace'[f][Len(trace'[f])]}
  ELSE {}

Quiet(f) ==
  /\ pc'[f] = "idle"
  /\ trace'[f] = <<>>
  /\ UNCHANGED <<state, clients, tool_cache, config, read_streams,
                 write_streams, nextSid, opened>>

AtLeastInitialized == state \in {INITIALIZED, CONNECTED}

NoDoubleUnderscore(id) ==
  \A i \in 1..Len(id) : i < Len(id) => ~(id[i] = "_" /\ id[i + 1] = "_")

\* the identifiers without "__", and those with one
PlainIds == {id \in Identifiers : NoDoubleUnderscore(id)}

RoutedIds == Identifiers \ PlainIds

\* the text before the first "__"
ServerPart ==
  [id \in RoutedIds |->
     LET i == CHOOSE k \in 1..Len(id) :
                /\ k < Len(id) /\ id[k] = "_" /\ id[k + 1] = "_"
                /\ \A j \in 1..(k - 1) : ~(id[j] = "_" /\ id[j + 1] = "_")
     IN SubSeq(id, 1, i - 1)]

ConfigEntries == {config.mcpServers[i] : i \in 1..Len(config.mcpServers)}

ConfiguredNames == {e.name : e \in ConfigEntries}

DisabledNames == {e.name : e \in {x \in ConfigEntries : x.disabled}}

\* ------------------------------------------------------ overlapping calls
\* two flows of control on one event loop: while one call is suspended at an
\* await the other flow runs; there is one configuration, with one enabled
\* server, and one tool identifier
OverlapSources ==
  {s \in Sources : /\ s.readable /\ Validates(s)
                   /\ Len(s.servers) = 1 /\ ~s.servers[1].disabled}

OverlapIds == {SrvA \o <<"_", "_">> \o ToolA}

\* the calls that open and close a lifetime of the manager
Lifetime(f) ==
  \/ \E src \in OverlapSources : initialize(f, src)
  \/ initialize_read(f)
  \/ cleanup(f)

\* call_tool and its continuations
Invoke(f) ==
  \/ \E id \in OverlapIds : call_tool(f, id)
  \/ connect_spawned(f)
  \/ connect_handshaken(f)
  \/ tools_listed(f)
  \/ tool_called(f)

\* the first flow owns the manager's lifetime, both flows call tools
NextOverlap ==
  /\ \/ Lifetime(Flow1)
     \/ Invoke(Flow1)
     \/ Invoke(Flow2)
  /\ UNCHANGED aux

SpecOverlap == Init /\ [][NextOverlap]_vars

\* ------------------------------------------------- get_mcp_client_manager
\* instances of McpClientManager are numbered in the order of construction;
\* the manager variables are those of the instance in the cache
InitSingleton ==
  /\ InitManager
  /\ singleton = [pc |-> "on", cache |-> <<>>, created |-> 0,
                  held |-> [f \in Flows |-> 0]]
  /\ tool_result = Idle
  /\ classified = Idle
  /\ discovery = Idle
  /\ harness = Idle
  /\ wrapper = Idle

\* variant: every call constructs a manager and caches it
get_mcp_client_manager_uncached(sg, f) ==
  [sg EXCEPT !.created = @ + 1, !.cache = <<sg.created + 1>>,
             !.held = [@ EXCEPT ![f] = sg.created + 1]]

\* @lru_cache(maxsize=1) on a function without arguments: the body runs
\* when nothing is cached; f is the caller, who keeps what is returned
get_mcp_client_manager(sg, f) ==
  IF sg.cache = <<>>
  THEN [sg EXCEPT !.created = @ + 1, !.cache = <<sg.created + 1>>,
                  !.held = [@ EXCEPT ![f] = sg.created + 1]]
  ELSE [sg EXCEPT !.held = [@ EXCEPT ![f] = sg.cache[1]]]

\* McpClientManager(): the fields of a new instance
Constructed ==
  /\ state' = UNINITIALIZED
  /\ clients' = EmptyMap
  /\ tool_cache' = EmptyMap
  /\ config' = NoConfig
  /\ read_streams' = EmptyMap
  /\ write_streams' = EmptyMap

\* flow f holds the instance that is in the cache
Current(f) ==
  singleton.cache # <<>> /\ singleton.held[f] = singleton.cache[1]

\* "manager = get_mcp_client_manager()" at a call site
manager_obtained(f) ==
  /\ pc[f] = "idle"
  /\ get_mcp_client_manager(singleton, f).created <= MaxInstances
  /\ singleton' = get_mcp_client_manager(singleton, f)
  /\ IF singleton'.created # singleton.created THEN Constructed
     ELSE UNCHANGED mgr
  /\ UNCHANGED <<pc, loc, trace, ret, nextSid, opened, tool_result,
                 classified, discovery, harness, wrapper>>

\* a call site calls initialize on the manager it holds
manager_initialize(f) ==
  /\ Current(f)
  /\ \/ \E src \in OverlapSources : initialize(f, src)
     \/ initialize_read(f)
  /\ UNCHANGED aux

\* call_mcp_tool: the manager is looked up, then call_tool runs on it
call_mcp_tool(f, id) ==
  /\ get_mcp_client_manager(singleton, f).created <= MaxInstances
  /\ singleton' = get_mcp_client_manager(singleton, f)
  /\ IF singleton'.created # singleton.created
     THEN /\ Start(f)
          /\ Constructed
          /\ Resume(f, Raise(Locals(f, "call_tool"), <<>>,
                             validate_state_at_least(UNINITIALIZED, INITIALIZED),
                             "state"))
          /\ UNCHANGED <<nextSid, opened>>
     ELSE call_tool(f, id)
  /\ UNCHANGED <<tool_result, classified, discovery, harness, wrapper>>

\* call_tool goes on, on the manager call_mcp_tool looked up
call_mcp_tool_resumed(f) ==
  /\ Current(f)
  /\ \/ connect_spawned(f)
     \/ connect_handshaken(f)
     \/ tools_listed(f)
     \/ tool_called(f)
  /\ UNCHANGED aux

\* the fixture of the integration tests, after a test: cleanup unless
\* uninitialized, then cache_clear()
cleanup_mcp_manager(f) ==
  /\ \A g \in Flows : pc[g] = "idle"
  /\ get_mcp_client_manager(singleton, f).created <= MaxInstances
  /\ LET sg == get_mcp_client_manager(singleton, f)
     IN /\ singleton' = [sg EXCEPT !.cache = <<>>]
        /\ IF sg.created # singleton.created
           THEN Constructed /\ UNCHANGED <<pc, loc, trace, ret>>
           ELSE IF state # UNINITIALIZED
           THEN cleanup(f)
           ELSE UNCHANGED <<mgr, pc, loc, trace, ret>>
  /\ UNCHANGED <<nextSid, opened, tool_result, classified, discovery,
                 harness, wrapper>>

NextSingleton ==
  \/ manager_obtained(Flow1)
  \/ manager_initialize(Flow1)
  \/ \E id \in OverlapIds : call_mcp_tool(Flow2, id)
  \/ call_mcp_tool_resumed(Flow2)
  \/ cleanup_mcp_manager(Flow1)

SpecSingleton == InitSingleton /\ [][NextSingleton]_vars

\* ---- the harness: main() of harness.py ----

Argvs == {"none", "missing", "directory", "file"}
Outcomes == {"completed", "Exception", "KeyboardInterrupt", "SystemExit"}
CleanupOutcomes == {"ok", "BaseExceptionGroup", "error", "SystemExit"}
Signals == {"SIGINT", "SIGTERM"}

InitHarness ==
  /\ InitManager
  /\ singleton = [pc |-> "on", cache |-> <<>>, created |-> 0,
                  held |-> [f \in Flows |-> 0]]
  /\ harness \in {[pc |-> "main", argv |-> a, exit_code |-> 0,
                   status |-> <<>>, ran |-> FALSE, outcome |-> "none",
                   cleanups |-> 0, cleaned |-> "none",
                   signal |-> "none", signal_at |-> "none"] : a \in Argvs}
  /\ tool_result = Idle
  /\ classified = Idle
  /\ discovery = Idle
  /\ wrapper = Idle

\* variant: the path only has to exist
script_path_exists(argv) == argv \in {"file", "directory"}

\* an argument is given, the path exists and it is a file
script_path_valid(argv) == argv = "file"

\* sys.exit(code): the process ends with this status
sys_exit(h, code) == [h EXCEPT !.pc = "exited", !.status = <<code>>]

\* variant: a failing script leaves the exit code alone
except_exit_code_swallowing(outcome, code) ==
  CASE outcome = "KeyboardInterrupt" -> 130
    [] OTHER -> code

\* the except clauses around runpy.run_path: KeyboardInterrupt and
\* Exception are caught, any other BaseException goes on to the finally
except_exit_code(outcome, code) ==
  CASE outcome = "KeyboardInterrupt" -> 130
    [] outcome = "Exception" -> 1
    [] OTHER -> code

\* the except clause around the cleanup: BaseExceptionGroup is suppressed,
\* anything else turns a zero exit code into 1
cleanup_exit_code(out, code) ==
  IF out \in {"ok", "BaseExceptionGroup"} THEN code
  ELSE IF code = 0 THEN 1 ELSE code

\* the arguments are checked, then the manager is obtained
main_started ==
  /\ harness.pc = "main"
  /\ IF script_path_valid(harness.argv)
     THEN /\ singleton' = get_mcp_client_manager(singleton, Flow1)
          /\ IF singleton'.created # singleton.created THEN Constructed
             ELSE UNCHANGED mgr
          /\ harness' = [harness EXCEPT !.pc = "initialize"]
     ELSE /\ harness' = sys_exit(harness, 1)
          /\ UNCHANGED <<mgr, singleton, wrapper>>
  /\ UNCHANGED <<pc, loc, trace, ret, nextSid, opened, tool_result,
                 classified, discovery, wrapper>>

\* loop.run_until_complete(manager.initialize()); when it returns the
\* handlers are installed and the script starts, when it raises the
\* process exits
main_initialize ==
  /\ harness.pc = "initialize"
  /\ \/ \E src \in Sources : initialize(Flow1, src)
     \/ initialize_read(Flow1)
  /\ harness' = IF pc'[Flow1] # "idle" THEN harness
                ELSE IF ret'[Flow1].status = "ok"
                THEN [harness EXCEPT !.pc = "script", !.exit_code = 0,
                                     !.ran = TRUE]
                ELSE sys_exit(harness, 1)
  /\ UNCHANGED <<singleton, tool_result, classified, discovery, wrapper>>

\* the script calls tools through call_mcp_tool
script_called ==
  /\ harness.pc = "script"
  /\ \/ \E id \in OverlapIds : call_mcp_tool(Flow2, id)
     \/ call_mcp_tool_resumed(Flow2)

\* runpy.run_path returns or raises
script_ended ==
  /\ harness.pc = "script"
  /\ \E o \in Outcomes :
       /\ o = "completed" => pc[Flow2] = "idle"
       /\ harness' = [harness EXCEPT
                        !.pc = "finally", !.outcome = o,
                        !.exit_code = except_exit_code(o, @)]
  /\ UNCHANGED <<mgr, pc, loc, trace, ret, nextSid, opened, tool_result,
                 classified, discovery, singleton, wrapper>>

\* SIGINT or SIGTERM arrives: the handler calls sys.exit(130), which
\* raises SystemExit where the main thread is; outside the cleanup's try
\* nothing catches it
signal_received ==
  /\ harness.pc \in {"script", "finally", "close"}
  /\ \E sig \in Signals :
       harness' =
         IF harness.pc = "script"
         THEN [harness EXCEPT
                 !.pc = "finally", !.outcome = "SystemExit",
                 !.exit_code = except_exit_code("SystemExit", @),
                 !.signal = sig, !.signal_at = "script"]
         ELSE [sys_exit(harness, 130) EXCEPT
                 !.signal = sig, !.signal_at = harness.pc]
  /\ UNCHANGED <<mgr, pc, loc, trace, ret, nextSid, opened, tool_result,
                 classified, discovery, singleton, wrapper>>

\* the finally block: loop.run_until_complete(manager.cleanup()) inside
\* its own try; what the loop raises there, a signal's SystemExit
\* included, is caught
finally_cleanup ==
  /\ harness.pc = "finally"
  /\ \E out \in CleanupOutcomes :
       /\ \/ cleanup(Flow1)
          \/ /\ out # "ok"
             /\ UNCHANGED <<mgr, pc, loc, trace, ret, nextSid, opened>>
       /\ \E sig \in Signals \cup {"none"} :
            /\ sig # "none" <=> out = "SystemExit"
            /\ harness' = [harness EXCEPT
                             !.pc = "close", !.cleanups = @ + 1,
                             !.cleaned = out,
                             !.exit_code = cleanup_exit_code(out, @),
                             !.signal = IF sig = "none" THEN @ ELSE sig,
                             !.signal_at = IF sig = "none" THEN @
                                           ELSE "cleanup"]
  /\ UNCHANGED <<tool_result, classified, discovery, singleton, wrapper>>

\* loop.close(), then sys.exit(exit_code) as the last statement of the
\* finally block: an exception still in flight is replaced
main_exited ==
  /\ harness.pc = "close"
  /\ harness' = sys_exit(harness, harness.exit_code)
  /\ UNCHANGED <<mgr, pc, loc, trace, ret, nextSid, opened, tool_result,
                 classified, discovery, singleton, wrapper>>

NextHarness ==
  \/ main_started
  \/ main_initialize
  \/ script_called
  \/ script_ended
  \/ signal_received
  \/ finally_cleanup
  \/ main_exited

SpecHarness == InitHarness /\ [][NextHarness]_vars

\* ---- generate_test_params.py: classify_tool ----

SAFE == "safe"
DANGEROUS == "dangerous"
UNKNOWN == "unknown"

\* "^get_" and the like: the name begins with the prefix; "^create_.*table"
\* has `then`, which has to follow the prefix on the same line
SAFE_PATTERNS ==
  {[prefix |-> <<"g", "e", "t", "_">>, then |-> <<>>],
   [prefix |-> <<"l", "i", "s", "t", "_">>, then |-> <<>>],
   [prefix |-> <<"s", "e", "a", "r", "c", "h", "_">>, then |-> <<>>],
   [prefix |-> <<"d", "e", "s", "c", "r", "i", "b", "e", "_">>, then |-> <<>>],
   [prefix |-> <<"f", "e", "t", "c", "h">>, then |-> <<>>],
   [prefix |-> <<"r", "e", "a", "d", "_">>, then |-> <<>>],
   [prefix |-> <<"s", "h", "o", "w", "_">>, then |-> <<>>],
   [prefix |-> <<"v", "i", "e", "w", "_">>, then |-> <<>>],
   [prefix |-> <<"f", "i", "n", "d", "_">>, then |-> <<>>],
   [prefix |-> <<"q", "u", "e", "r", "y", "_">>, then |-> <<>>]}

DANGEROUS_PATTERNS ==
  {[prefix |-> <<"d", "e", "l", "e", "t", "e", "_">>, then |-> <<>>],
   [prefix |-> <<"r", "e", "m", "o", "v", "e", "_">>, then |-> <<>>],
   [prefix |-> <<"d", "r", "o", "p", "_">>, then |-> <<>>],
   [prefix |-> <<"d", "e", "s", "t", "r", "o", "y", "_">>, then |-> <<>>],
   [prefix |-> <<"k", "i", "l", "l", "_">>, then |-> <<>>],
   [prefix |-> <<"c", "r", "e", "a", "t", "e", "_">>, then |-> <<"t", "a", "b", "l", "e">>],
   [prefix |-> <<"u", "p", "d", "a", "t", "e", "_">>, then |-> <<>>],
   [prefix |-> <<"w", "r", "i", "t", "e", "_">>, then |-> <<>>],
   [prefix |-> <<"e", "x", "e", "c", "u", "t", "e", "_">>, then |-> <<>>],
   [prefix |-> <<"r", "u", "n", "_">>, then |-> <<>>],
   [prefix |-> <<"m", "o", "d", "i", "f", "y", "_">>, then |-> <<>>],
   [prefix |-> <<"s", "e", "t", "_">>, then |-> <<>>],
   [prefix |-> <<"p", "u", "t", "_">>, then |-> <<>>],
   [prefix |-> <<"p", "o", "s", "t", "_">>, then |-> <<>>]}

SAFE_KEYWORDS ==
  {<<"g", "e", "t">>, <<"l", "i", "s", "t">>, <<"r", "e", "a", "d">>,
   <<"f", "e", "t", "c", "h">>, <<"s", "e", "a", "r", "c", "h">>,
   <<"q", "u", "e", "r", "y">>, <<"s", "h", "o", "w">>,
   <<"v", "i", "e", "w">>, <<"f", "i", "n", "d">>,
   <<"d", "e", "s", "c", "r", "i", "b", "e">>}

DANGEROUS_KEYWORDS ==
  {<<"d", "e", "l", "e", "t", "e">>, <<"r", "e", "m", "o", "v", "e">>,
   <<"d", "r", "o", "p">>, <<"d", "e", "s", "t", "r", "o", "y">>,
   <<"k", "i", "l", "l">>, <<"u", "p", "d", "a", "t", "e">>,
   <<"w", "r", "i", "t", "e">>, <<"e", "x", "e", "c", "u", "t", "e">>,
   <<"m", "o", "d", "i", "f", "y">>,
   <<"t", "r", "u", "n", "c", "a", "t", "e">>}

Uppers ==
  <<"A", "B", "C", "D", "E", "F", "G", "H", "I", "J", "K", "L", "M", "N",
    "O", "P", "Q", "R", "S", "T", "U", "V", "W", "X", "Y", "Z">>

Lowers ==
  <<"a", "b", "c", "d", "e", "f", "g", "h", "i", "j", "k", "l", "m", "n",
    "o", "p", "q", "r", "s", "t", "u", "v", "w", "x", "y", "z">>

Newline == "\n"

\* str.lower(), one character
lower_char(c) ==
  IF \E i \in DOMAIN Uppers : Uppers[i] = c
  THEN Lowers[CHOOSE i \in DOMAIN Uppers : Uppers[i] = c]
  ELSE c

\* str.lower()
lower(s) == [i \in 1..Len(s) |-> lower_char(s[i])]

\* kw in s
Contains(s, kw) ==
  \E i \in 1..(Len(s) - Len(kw) + 1) : SubSeq(s, i, i + Len(kw) - 1) = kw

\* re.match(pattern, name, re.IGNORECASE): anchored at the start, letters
\* compared without case, "." matching anything but a newline
re_match(p, name) ==
  LET n == lower(name)
      k == Len(p.prefix)
  IN /\ Len(n) >= k
     /\ SubSeq(n, 1, k) = lower(p.prefix)
     /\ \/ p.then = <<>>
        \/ \E i \in (k + 1)..(Len(n) - Len(p.then) + 1) :
             /\ SubSeq(n, i, i + Len(p.then) - 1) = lower(p.then)
             /\ \A j \in (k + 1)..(i - 1) : n[j] # Newline

any_match(patterns, name) == \E p \in patterns : re_match(p, name)

any_keyword(desc_lower, keywords) ==
  \E kw \in keywords : Contains(desc_lower, kw)

\* "if description": neither None nor the empty string
Truthy(description) == description # <<>> /\ Len(description[1]) > 0

\* variant: the name patterns are tried before the description
classify_tool_name_first(tool_name, description) ==
  IF any_match(DANGEROUS_PATTERNS, tool_name) THEN DANGEROUS
  ELSE IF any_match(SAFE_PATTERNS, tool_name) THEN SAFE
  ELSE IF /\ Truthy(description)
          /\ any_keyword(lower(description[1]), DANGEROUS_KEYWORDS)
  THEN DANGEROUS
  ELSE IF /\ Truthy(description)
          /\ any_keyword(lower(description[1]), SAFE_KEYWORDS)
  THEN SAFE
  ELSE UNKNOWN

classify_tool(tool_name, description) ==
  IF /\ Truthy(description)
     /\ any_keyword(lower(description[1]), DANGEROUS_KEYWORDS)
  THEN DANGEROUS
  ELSE IF any_match(DANGEROUS_PATTERNS, tool_name) THEN DANGEROUS
  ELSE IF any_match(SAFE_PATTERNS, tool_name) THEN SAFE
  ELSE IF /\ Truthy(description)
          /\ any_keyword(lower(description[1]), SAFE_KEYWORDS)
  THEN SAFE
  ELSE UNKNOWN

\* the names and descriptions classify_tool is given: pieces put together
NameParts ==
  {<<"g", "e", "t", "_">>, <<"D", "e", "l", "e", "t", "e", "_">>,
   <<"c", "r", "e", "a", "t", "e", "_">>, <<"t", "a", "b", "l", "e">>,
   <<"f", "e", "t", "c", "h">>}

DescParts ==
  {<<"D", "e", "l", "e", "t", "e">>, <<"r", "e", "a", "d">>,
   <<" ", "a", " ">>}

RECURSIVE Concats(_, _)
Concats(parts, n) ==
  IF n = 0 THEN {<<>>}
  ELSE LET shorter == Concats(parts, n - 1)
       IN shorter \cup {s \o p : s \in shorter, p \in parts}

ToolNames == Concats(NameParts, MaxNameParts)
Descriptions == {<<>>} \cup {<<d>> : d \in Concats(DescParts, MaxDescParts)}

InitClassify ==
  /\ InitManager
  /\ classified \in {[pc |-> "called", tool_name |-> n, description |-> d,
                      safety |-> "none"] :
                       n \in ToolNames, d \in Descriptions}
  /\ tool_result = Idle
  /\ discovery = Idle
  /\ harness = Idle
  /\ singleton = Idle
  /\ wrapper = Idle

classify_tool_returned ==
  /\ classified.pc = "called"
  /\ classified' = [classified EXCEPT
                      !.pc = "returned",
                      !.safety = classify_tool(classified.tool_name,
                                               classified.description)]
  /\ UNCHANGED <<mgr, pc, loc, trace, ret, nextSid, opened, tool_result,
                 discovery, harness, singleton, wrapper>>

NextClassify == classify_tool_returned

SpecClassify == InitClassify /\ [][NextClassify]_vars

\* ---- generate_test_params.py: build_discovery_config ----

\* a tool as a server lists it; description is None or a string
Tool(name, description) == [name |-> name, description |-> description]

ToolSamples ==
  {Tool(<<"g", "e", "t", "_">>, <<<<"r", "e", "a", "d">>>>),
   Tool(<<"D", "e", "l", "e", "t", "e", "_">>, <<>>),
   Tool(<<"f", "e", "t", "c", "h">>, <<<<"D", "e", "l", "e", "t", "e">>>>),
   Tool(<<"t", "a", "b", "l", "e">>, <<>>),
   Tool(<<>>, <<<<"r", "e", "a", "d">>>>)}

\* what generate_test_parameters returns: None or a dict
ParamResults == {<<>>, <<"{}">>}

ToolLists == UNION {[1..k -> ToolSamples] : k \in 0..MaxTools}

\* servers_tools: two servers, MaxTools tools at most between them
ServersTools ==
  {st \in {<<[name |-> <<"a">>, tools |-> ta],
             [name |-> <<"b">>, tools |-> tb]>> :
               ta \in ToolLists, tb \in ToolLists} :
     Len(st[1].tools) + Len(st[2].tools) <= MaxTools}

InitDiscovery ==
  /\ InitManager
  /\ discovery \in
       {[pc |-> "tools", servers_tools |-> st, skip_dangerous |-> sk,
         i |-> 1, j |-> 1,
         safe_tools_config |-> EmptyMap,
         generated_count |-> 0, skipped_count |-> 0,
         servers |-> EmptyMap,
         tools_skipped |-> [dangerous |-> <<>>, unknown |-> <<>>],
         metadata |-> [generated_count |-> 0, skipped_count |-> 0],
         asked |-> <<>>] : st \in ServersTools, sk \in BOOLEAN}
  /\ tool_result = Idle
  /\ classified = Idle
  /\ harness = Idle
  /\ singleton = Idle
  /\ wrapper = Idle

\* variant: dangerous tools are never skipped
visit_keeping_dangerous(d, tool, params) ==
  LET tool_name == tool.name
      safety == classify_tool(tool_name, tool.description)
      next == [d EXCEPT !.j = @ + 1]
      skipped(kind, asked) ==
        [next EXCEPT !.tools_skipped[kind] = Append(@, tool_name),
                     !.skipped_count = @ + 1,
                     !.asked = Append(@, asked)]
  IN IF tool_name = <<>> THEN [next EXCEPT !.asked = Append(@, "no")]
     ELSE IF safety = UNKNOWN THEN skipped("unknown", "no")
     ELSE IF params = <<>> THEN skipped("unknown", "failed")
     ELSE [next EXCEPT !.safe_tools_config = Put(@, tool_name, params[1]),
                       !.generated_count = @ + 1,
                       !.asked = Append(@, "ok")]

\* the body of "for tool in tools"; params is what
\* generate_test_parameters returns if it is called; `asked` keeps, for
\* each tool visited, whether it was called and how it ended
visit(d, tool, params) ==
  LET tool_name == tool.name
      safety == classify_tool(tool_name, tool.description)
      next == [d EXCEPT !.j = @ + 1]
      skipped(kind, asked) ==
        [next EXCEPT !.tools_skipped[kind] = Append(@, tool_name),
                     !.skipped_count = @ + 1,
                     !.asked = Append(@, asked)]
  IN IF tool_name = <<>> THEN [next EXCEPT !.asked = Append(@, "no")]
     ELSE IF d.skip_dangerous /\ safety = DANGEROUS
     THEN skipped("dangerous", "no")
     ELSE IF safety = UNKNOWN THEN skipped("unknown", "no")
     ELSE IF params = <<>> THEN skipped("unknown", "failed")
     ELSE [next EXCEPT !.safe_tools_config = Put(@, tool_name, params[1]),
                       !.generated_count = @ + 1,
                       !.asked = Append(@, "ok")]

tool_visited ==
  /\ discovery.pc = "tools"
  /\ discovery.i <= Len(discovery.servers_tools)
  /\ LET tools == discovery.servers_tools[discovery.i].tools
     IN /\ discovery.j <= Len(tools)
        /\ \E params \in ParamResults :
             discovery' = visit(discovery, tools[discovery.j], params)
  /\ UNCHANGED <<mgr, pc, loc, trace, ret, nextSid, opened, tool_result,
                 classified, harness, singleton, wrapper>>

\* after the last tool of a server: its safeTools are kept if there are
\* any, the counters are added up, and the next server starts afresh
server_finished ==
  /\ discovery.pc = "tools"
  /\ discovery.i <= Len(discovery.servers_tools)
  /\ LET server == discovery.servers_tools[discovery.i]
         d == discovery
     IN /\ d.j > Len(server.tools)
        /\ discovery' =
             [d EXCEPT
                !.servers = IF DOMAIN d.safe_tools_config # {}
                            THEN Put(@, server.name,
                                     [safeTools |-> d.safe_tools_config])
                            ELSE @,
                !.metadata.generated_count = @ + d.generated_count,
                !.metadata.skipped_count = @ + d.skipped_count,
                !.i = @ + 1, !.j = 1,
                !.safe_tools_config = EmptyMap,
                !.generated_count = 0, !.skipped_count = 0]
  /\ UNCHANGED <<mgr, pc, loc, trace, ret, nextSid, opened, tool_result,
                 classified, harness, singleton, wrapper>>

\* config["metadata"] = metadata; return config
config_returned ==
  /\ discovery.pc = "tools"
  /\ discovery.i > Len(discovery.servers_tools)
  /\ discovery' = [discovery EXCEPT !.pc = "returned"]
  /\ UNCHANGED <<mgr, pc, loc, trace, ret, nextSid, opened, tool_result,
                 classified, harness, singleton, wrapper>>

NextDiscovery == tool_visited \/ server_finished \/ config_returned

SpecDiscovery == InitDiscovery /\ [][NextDiscovery]_vars

\* ---- generate_wrappers.py: the identifier of a generated wrapper ----

\* server and tool names: non-empty strings without "__"
Names == {n \in Str(MaxNameLen) : n # <<>> /\ ~HasSep(n)}

InitWrapper ==
  /\ InitManager
  /\ wrapper \in {[pc |-> "given", server_name |-> s, tool_name |-> t,
                   tool_identifier |-> <<>>, parts |-> <<>>] :
                    s \in Names, t \in Names}
  /\ tool_result = Idle
  /\ classified = Idle
  /\ discovery = Idle
  /\ harness = Idle
  /\ singleton = Idle

\* tool_identifier = f"{server_name}__{tool_name}"
tool_identifier(server_name, tool_name) ==
  server_name \o <<"_", "_">> \o tool_name

tool_wrapper_generated ==
  /\ wrapper.pc = "given"
  /\ wrapper' = [wrapper EXCEPT
                   !.pc = "generated",
                   !.tool_identifier =
                      tool_identifier(wrapper.server_name, wrapper.tool_name)]
  /\ UNCHANGED <<mgr, pc, loc, trace, ret, nextSid, opened, tool_result,
                 classified, discovery, harness, singleton>>

\* the wrapper calls call_mcp_tool with its identifier: call_tool checks
\* the separator and splits at its first occurrence
identifier_parsed ==
  /\ wrapper.pc = "generated"
  /\ wrapper' = [wrapper EXCEPT
                   !.pc = IF HasSep(wrapper.tool_identifier) THEN "parsed"
                          ELSE "rejected",
                   !.parts = IF HasSep(wrapper.tool_identifier)
                             THEN SplitId(wrapper.tool_identifier)
                             ELSE <<>>]
  /\ UNCHANGED <<mgr, pc, loc, trace, ret, nextSid, opened, tool_result,
                 classified, discovery, harness, singleton>>

NextWrapper == tool_wrapper_generated \/ identifier_parsed

SpecWrapper == InitWrapper /\ [][NextWrapper]_vars

\* C1: every change of the connection state is uninitialized -> initialized
\* by a successful initialize, initialized -> connected by a successful
\* server connection, or anything -> uninitialized by cleanup.
C1_StateTransitions ==
  [][state' # state =>
       \E f \in Flows :
         \/ /\ state = UNINITIALIZED /\ state' = INITIALIZED
            /\ Completed(f, "initialize") /\ ret'[f].status = "ok"
         \/ /\ state = INITIALIZED /\ state' = CONNECTED
            /\ pc[f] = "handshake"
            /\ loc[f].server \notin DOMAIN clients
            /\ loc[f].server \in DOMAIN clients'
         \/ /\ state' = UNINITIALIZED
            /\ Completed(f, "cleanup")]_vars

C1_Witness ==
  /\ state = UNINITIALIZED
  /\ ret[Flow1].op = "cleanup"
  /\ nextSid > 1

\* C2: while uninitialized, call_tool and list_all_tools raise the
\* ConfigurationError of the state check, issue no transport request and
\* change nothing the manager holds.
C2_UninitializedRejects ==
  [][\A f \in Flows :
       (state = UNINITIALIZED
          /\ (Began(f, "call_tool") \/ Began(f, "list_all_tools")))
       => /\ ret'[f].status = "ConfigurationError"
          /\ ret'[f].msg = "state"
          /\ Quiet(f)]_vars

C2_Witness ==
  /\ state = UNINITIALIZED
  /\ ret[Flow1].op = "call_tool"
  /\ ret[Flow1].status = "ConfigurationError"

\* C3: initialize in state initialized or connected raises
\* ConfigurationError and changes nothing; an initialize that succeeds was
\* running in state uninitialized.
C3_InitializeOnlyFromUninitialized ==
  [][\A f \in Flows :
       /\ (Began(f, "initialize") /\ state # UNINITIALIZED)
          => (ret'[f].status = "ConfigurationError" /\ Quiet(f))
       /\ (Completed(f, "initialize") /\ ret'[f].status = "ok")
          => state = UNINITIALIZED]_vars

C3_Witness ==
  /\ state = CONNECTED
  /\ ret[Flow1].op = "initialize"
  /\ ret[Flow1].status = "ConfigurationError"

\* C4: a successful initialize stores the configuration read from the
\* source, leaves the state initialized, and leaves the session map and the
\* tool cache empty without having issued any transport request.
C4_InitializeConnectsNothing ==
  [][\A f \in Flows :
       (Completed(f, "initialize") /\ ret'[f].status = "ok")
       => /\ state' = INITIALIZED
          /\ config'.loaded
          /\ Len(config'.mcpServers) = Len(loc[f].src.servers)
          /\ \A i \in 1..Len(config'.mcpServers) :
               /\ config'.mcpServers[i].name = loc[f].src.servers[i].name
               /\ config'.mcpServers[i].disabled
                    = loc[f].src.servers[i].disabled
          /\ clients' = EmptyMap
          /\ tool_cache' = EmptyMap
          /\ trace'[f] = <<>>
          /\ nextSid' = nextSid
          /\ opened' = opened]_vars

C4_Witness ==
  /\ state = INITIALIZED
  /\ ret[Flow1].op = "initialize"
  /\ ret[Flow1].status = "ok"
  /\ Len(get_enabled_servers(config)) = 2
  /\ nextSid > 1

\* C5: an initialize whose source is missing, unreadable, malformed or
\* invalid raises ConfigurationError, leaves the state uninitialized (the
\* state the next initialize requires) and stores no configuration.
C5_FailedInitializeStoresNothing ==
  [][\A f \in Flows :
       LET src == loc[f].src
           bad == \/ ~src.readable
                  \/ ~src.wellformed
                  \/ src.servers = <<>>
                  \/ \E i \in 1..Len(src.servers) :
                       \A j \in 1..Len(src.servers[i].command) :
                         src.servers[i].command[j] = Space
       IN /\ (state = UNINITIALIZED /\ Began(f, "initialize"))
             => \A s \in {x \in Sources : ~x.exists} :
                  initialize(f, s)
                  => (ret'[f].status = "ConfigurationError" /\ Quiet(f))
          /\ (pc[f] = "read" /\ bad /\ pc'[f] # "read")
             => /\ Completed(f, "initialize")
                /\ ret'[f].status = "ConfigurationError"
          /\ (Completed(f, "initialize") /\ ret'[f].msg \in {"not_found", "load"})
             => /\ ret'[f].status = "ConfigurationError"
                /\ state = UNINITIALIZED
                /\ state' = UNINITIALIZED
                /\ validate_state(state', UNINITIALIZED) = "none"
                /\ config' = NoConfig
                /\ Quiet(f)]_vars

C5_Witness ==
  /\ state = UNINITIALIZED
  /\ ret[Flow1].op = "initialize"
  /\ ret[Flow1].msg = "load"

\* C6: a registered session stays registered, unreplaced, until cleanup;
\* no spawn or handshake is requested for a server that has a session, and
\* every list_tools and call_tool request goes to the registered session.
C6_ConnectOnce ==
  [][/\ \A s \in DOMAIN clients :
          ~Cleaned => (s \in DOMAIN clients' /\ clients'[s] = clients[s])
     /\ \A f \in Flows : \A e \in NewEvents(f) :
          /\ e.ev \in {"spawn", "handshake"} => e.server \notin DOMAIN clients'
          /\ e.ev \in {"list_tools", "call_tool"}
               => (e.server \in DOMAIN clients' /\ e.sid = clients'[e.server])
    ]_vars

C6_Witness ==
  /\ ret[Flow1].op = "call_tool"
  /\ ret[Flow1].status = "ok"
  /\ Len(trace[Flow1]) = 1
  /\ trace[Flow1][1].ev = "call_tool"

\* C7: a cached catalog stays cached, unchanged, until cleanup; no
\* list_tools is requested for a server that has a cache entry; a list_tools
\* that succeeds fills the entry of its server.
C7_CacheOnce ==
  [][/\ \A s \in DOMAIN tool_cache :
          ~Cleaned => (s \in DOMAIN tool_cache'
                         /\ tool_cache'[s] = tool_cache[s])
     /\ \A f \in Flows : \A e \in NewEvents(f) :
          e.ev = "list_tools" => e.server \notin DOMAIN tool_cache'
     /\ \A f \in Flows :
          (pc[f] = "list" /\ pc'[f] # "list"
             /\ trace'[f][Len(trace[f])].out = "ok")
          => loc[f].server \in DOMAIN tool_cache'
    ]_vars

C7_Witness ==
  /\ ret[Flow1].op = "list_all_tools"
  /\ ret[Flow1].status = "ok"
  /\ ret[Flow1].value # <<>>
  /\ trace[Flow1] = <<>>

\* C8: once initialized, call_tool with an identifier without "__" raises
\* ToolNotFoundError, issues no transport request and changes nothing.
C8_NoSeparatorRejected ==
  [][\A f \in Flows :
       (AtLeastInitialized /\ Began(f, "call_tool"))
       => \/ ret'[f].status = "ToolNotFoundError" /\ Quiet(f)
          \/ \A id \in PlainIds : ~call_tool(f, id)]_vars

C8_Witness ==
  /\ state = CONNECTED
  /\ ret[Flow1].op = "call_tool"
  /\ ret[Flow1].msg = "identifier"

\* C9: once initialized, call_tool whose text before the first "__" is no
\* key of the configuration raises ToolNotFoundError, issues no transport
\* request and changes nothing.
C9_UnknownServerRejected ==
  [][\A f \in Flows :
       (AtLeastInitialized /\ Began(f, "call_tool"))
       => \/ ret'[f].status = "ToolNotFoundError" /\ Quiet(f)
          \/ \A id \in {x \in RoutedIds : ServerPart[x] \notin ConfiguredNames} :
               ~call_tool(f, id)]_vars

C9_Witness ==
  /\ state = CONNECTED
  /\ ret[Flow1].op = "call_tool"
  /\ ret[Flow1].msg = "no_server"

\* C10: call_tool on a disabled server raises ToolNotFoundError without any
\* transport request; no transport request is ever issued for a disabled
\* server; the session map and the tool cache hold only enabled servers.
C10_DisabledNeverConnected ==
  [][/\ \A f \in Flows :
          (AtLeastInitialized /\ Began(f, "call_tool"))
          => \/ ret'[f].status = "ToolNotFoundError" /\ Quiet(f)
             \/ \A id \in {x \in RoutedIds : ServerPart[x] \in DisabledNames} :
                  ~call_tool(f, id)
     /\ \A f \in Flows : \A e \in NewEvents(f) :
          e.server \in ConfiguredNames' \ DisabledNames'
     /\ (DOMAIN clients') \cup (DOMAIN tool_cache')
          \subseteq ConfiguredNames' \ DisabledNames'
    ]_vars

C10_Witness ==
  /\ ret[Flow1].op = "list_all_tools"
  /\ ret[Flow1].status = "ok"
  /\ ret[Flow1].value # <<>>
  /\ trace[Flow1] # <<>>
  /\ DisabledNames # {}

\* the text after the first "__"
ToolPart ==
  [id \in RoutedIds |-> SubSeq(id, Len(ServerPart[id]) + 3, Len(id))]

\* the identifiers whose server has a cached catalog without their tool
AbsentIds ==
  {x \in RoutedIds : /\ ServerPart[x] \in DOMAIN tool_cache
                     /\ ToolPart[x] \notin Range(tool_cache[ServerPart[x]])}

\* C11: a call_tool whose tool name is not in the server's catalog, just
\* fetched or cached, raises ToolNotFoundError, and a call_tool request is
\* sent to a session only for a tool name the catalog holds.
C11_AbsentToolNotDispatched ==
  [][\A f \in Flows :
       /\ \A e \in NewEvents(f) :
            e.ev = "call_tool"
            => /\ e.server \in DOMAIN tool_cache'
               /\ loc'[f].tool \in Range(tool_cache'[e.server])
       /\ ( /\ pc[f] \in {"handshake", "list"}
            /\ loc[f].op = "call_tool"
            /\ pc'[f] \in {"idle", "dispatch"}
            /\ loc[f].server \in DOMAIN tool_cache'
            /\ loc[f].tool \notin Range(tool_cache'[loc[f].server]) )
          => /\ pc'[f] = "idle"
             /\ ret'[f].status = "ToolNotFoundError"
             /\ NewEvents(f) = {}
       /\ (AtLeastInitialized /\ Began(f, "call_tool"))
          => \/ ret'[f].status = "ToolNotFoundError" /\ Quiet(f)
             \/ \A id \in AbsentIds : ~call_tool(f, id)]_vars

C11_Witness ==
  /\ ret[Flow1].op = "call_tool"
  /\ ret[Flow1].msg = "no_tool"
  /\ trace[Flow1] = <<>>
  /\ SrvA \in DOMAIN tool_cache

\* the transport request flow f was waiting for failed in this step
Failed(f, kinds) ==
  /\ pc[f] \in kinds
  /\ Len(trace'[f]) >= Len(trace[f])
  /\ trace[f][Len(trace[f])].out = "pending"
  /\ trace'[f][Len(trace[f])].out = "failed"

\* C12: when the spawn or the handshake of a connection to server s fails,
\* no session for s is registered, the connection state stays as it was, and
\* a call_tool that was connecting ends with ServerConnectionError.
C12_FailedConnectRegistersNothing ==
  [][\A f \in Flows :
       Failed(f, {"spawn", "handshake"})
       => /\ clients' = clients
          /\ loc[f].server \notin DOMAIN clients'
          /\ state' = state
          /\ loc[f].op = "call_tool"
             => /\ Completed(f, "call_tool")
                /\ ret'[f].status = "ServerConnectionError"]_vars

C12_Witness ==
  /\ ret[Flow1].op = "call_tool"
  /\ ret[Flow1].status = "ServerConnectionError"
  /\ trace[Flow1] # <<>>
  /\ trace[Flow1][Len(trace[Flow1])].ev = "handshake"
  /\ trace[Flow1][Len(trace[Flow1])].out = "failed"
  /\ state = INITIALIZED

\* the entries of map m for the servers other than s
Others(m, s) == [t \in (DOMAIN m) \ {s} |-> m[t]]

\* C13: no step of a call_tool for server s, a failing spawn or handshake
\* included, changes the session or the cached catalog of any other server.
C13_ConnectFailureFrame ==
  [][\A f \in Flows :
       /\ Began(f, "call_tool") => clients' = clients /\ tool_cache' = tool_cache
       /\ (pc[f] # "idle" /\ loc[f].op = "call_tool")
          => /\ Others(clients', loc[f].server) = Others(clients, loc[f].server)
             /\ Others(tool_cache', loc[f].server)
                  = Others(tool_cache, loc[f].server)
             /\ Failed(f, {"spawn", "handshake"})
                => clients' = clients /\ tool_cache' = tool_cache]_vars

C13_Witness ==
  /\ ret[Flow1].op = "call_tool"
  /\ ret[Flow1].msg = "connect"
  /\ trace[Flow1][1].server = SrvA
  /\ SrvAA \in DOMAIN clients
  /\ SrvAA \in DOMAIN tool_cache

\* C14: when the session's call_tool fails, the call ends with
\* ToolExecutionError, the server's session and cached catalog stay
\* registered, and the same call made again goes straight to the dispatch,
\* with no spawn, handshake or list_tools.
C14_ExecutionFailureKeepsSession ==
  [][\A f \in Flows :
       Failed(f, {"dispatch"})
       => /\ Completed(f, "call_tool")
          /\ ret'[f].status = "ToolExecutionError"
          /\ clients' = clients
          /\ tool_cache' = tool_cache
          /\ loc[f].server \in DOMAIN clients'
          /\ loc[f].server \in DOMAIN tool_cache'
          /\ LET again == LazyConnect(loc[f], <<>>, clients', tool_cache')
             IN /\ again.pc = "dispatch"
                /\ Len(again.trace) = 1
                /\ again.trace[1].sid = loc[f].client]_vars

C14_Witness ==
  /\ ret[Flow1].op = "call_tool"
  /\ ret[Flow1].status = "ToolExecutionError"
  /\ Len(trace[Flow1]) = 1
  /\ trace[Flow1][1].ev = "call_tool"
  /\ trace[Flow1][1].out = "failed"

\* the servers for which a transport request of trace tr failed
FailedServers(tr) == {tr[i].server : i \in {j \in 1..Len(tr) : tr[j].out = "failed"}}

\* the catalogs tc holds for the servers of `names` that are in `keep`, in
\* the order of `names`
RECURSIVE Catalogs(_, _, _)
Catalogs(names, keep, tc) ==
  IF names = <<>> THEN <<>>
  ELSE (IF Head(names) \in keep THEN tc[Head(names)] ELSE <<>>)
         \o Catalogs(Tail(names), keep, tc)

EnabledNames ==
  LET enabled == get_enabled_servers(config)
  IN [i \in 1..Len(enabled) |-> enabled[i].name]

ConfigOrder == [i \in 1..Len(config.mcpServers) |-> config.mcpServers[i].name]

\* the place of a configured name in the configuration
Pos(s) == CHOOSE i \in 1..Len(ConfigOrder) : ConfigOrder[i] = s

\* C16: list_all_tools returns the catalogs of the enabled servers it could
\* list, concatenated in the order of the configuration; it sends each kind
\* of request at most once per server, server after server in that order,
\* and has at most one request in flight; disabled servers get no request
\* and add nothing.
C16_ListAllToolsInOrder ==
  [][\A f \in Flows :
       /\ ( /\ Completed(f, "list_all_tools")
            /\ pc[f] = "idle" => AtLeastInitialized )
          => ret'[f].value
               = Catalogs(ConfigOrder, (DOMAIN tool_cache') \ DisabledNames,
                          tool_cache')
       /\ ( \/ Completed(f, "list_all_tools")
            \/ pc'[f] # "idle" /\ loc'[f].op = "list_all_tools" )
          => LET tr == trace'[f]
             IN /\ \A i \in 1..Len(tr) :
                     /\ tr[i].server \in ConfiguredNames \ DisabledNames
                     /\ tr[i].out = "pending" => i = Len(tr)
                /\ \A i, j \in 1..Len(tr) :
                     i < j => /\ Pos(tr[i].server) <= Pos(tr[j].server)
                              /\ tr[i].server = tr[j].server
                                 => tr[i].ev # tr[j].ev]_vars

C16_Witness ==
  /\ ret[Flow1].op = "list_all_tools"
  /\ ret[Flow1].status = "ok"
  /\ Len(ret[Flow1].value) = 3
  /\ Len(trace[Flow1]) = 6

\* C17: cleanup can be called in every state and any number of times in a
\* row; it never raises and leaves the state uninitialized, the session map
\* and the tool cache empty and no configuration; a cleanup right after a
\* cleanup changes nothing the manager holds.
C17_CleanupIdempotent ==
  [][\A f \in Flows :
       /\ pc[f] = "idle" => ENABLED cleanup(f)
       /\ Completed(f, "cleanup")
          => /\ ret'[f].status = "ok"
             /\ state' = UNINITIALIZED
             /\ clients' = EmptyMap
             /\ tool_cache' = EmptyMap
             /\ config' = NoConfig
             /\ (ret[f].op = "cleanup" \/ state = UNINITIALIZED)
                => UNCHANGED mgr]_vars

C17_Witness ==
  /\ ret[Flow1].op = "cleanup"
  /\ ret[Flow1].status = "ok"
  /\ state = UNINITIALIZED
  /\ clients = EmptyMap
  /\ Cardinality(DOMAIN opened) = MaxSessions

\* C18: once cleanup has returned, no transport the manager entered
\* (stdio_client / ClientSession) is still open.
C18_CleanupReleasesAll ==
  \A f \in Flows :
    (pc[f] = "idle" /\ ret[f].op = "cleanup" /\ ret[f].status = "ok")
    => opened = EmptyMap

\* C19: a lifetime started by initialize after a cleanup holds nothing of
\* the one before: it starts with no session, no stream and no catalog; the
\* first call_tool or list_all_tools that reaches a server spawns a
\* transport; a spawned transport is one never opened before; list_tools and
\* call_tool requests go to the session whose streams were registered since
\* the last cleanup; and only servers with such a session have a catalog.
C19_FreshLifetime ==
  [][\A f \in Flows :
       /\ (Completed(f, "initialize") /\ ret'[f].status = "ok")
          => /\ clients' = EmptyMap
             /\ tool_cache' = EmptyMap
             /\ read_streams' = EmptyMap
             /\ write_streams' = EmptyMap
       /\ (clients = EmptyMap /\ state = INITIALIZED
             /\ (Began(f, "call_tool") \/ Began(f, "list_all_tools")))
          => \/ Quiet(f)
             \/ /\ pc'[f] = "spawn"
                /\ \E e \in NewEvents(f) : e.ev = "spawn"
       /\ (pc[f] = "spawn" /\ pc'[f] = "handshake")
          => /\ loc'[f].client \notin DOMAIN opened
             /\ loc'[f].client \in DOMAIN opened'
             /\ read_streams'[loc'[f].server] = loc'[f].client
       /\ \A e \in NewEvents(f) :
            e.ev \in {"list_tools", "call_tool"}
            => /\ e.server \in DOMAIN clients'
               /\ e.sid = clients'[e.server]
               /\ e.sid = read_streams'[e.server]
       /\ DOMAIN tool_cache' \subseteq DOMAIN clients'
    ]_vars

C19_Witness ==
  /\ ret[Flow1].op = "call_tool"
  /\ ret[Flow1].status = "ok"
  /\ Len(trace[Flow1]) = 4
  /\ DisabledNames = {SrvA}
  /\ \E sid \in DOMAIN opened : opened[sid] = SrvA
  /\ SrvAA \in DOMAIN clients
  /\ clients[SrvAA] \in DOMAIN opened
  /\ opened[clients[SrvAA]] = SrvAA
  /\ SrvAA \in DOMAIN tool_cache

\* the transport request flow f was waiting for succeeded in this step
Succeeded(f, kinds) ==
  /\ pc[f] \in kinds
  /\ Len(trace'[f]) >= Len(trace[f])
  /\ trace[f][Len(trace[f])].out = "pending"
  /\ trace'[f][Len(trace[f])].out = "ok"

\* flow f's current or last call shook hands on transport sid
Handshook(f, sid) ==
  \E i \in 1..Len(trace[f]) :
    trace[f][i].ev = "handshake" /\ trace[f][i].out = "ok"
      /\ trace[f][i].sid = sid

\* C20: with overlapping calls, a call_tool spawns a transport whenever no
\* session is registered at the moment it starts, even while another call
\* is between its own check and its registration for the same server; a
\* successful handshake registers that call's session whatever is
\* registered by then, replacing it; and only a successful handshake or
\* cleanup changes the session map.
C20_CheckThenRegister ==
  [][/\ \A f \in Flows :
          /\ (Began(f, "call_tool") /\ AtLeastInitialized)
             => IF \A id \in OverlapIds : ServerPart[id] \notin DOMAIN clients
                THEN pc'[f] = "spawn"
                ELSE pc'[f] # "spawn"
          /\ Succeeded(f, {"handshake"})
             => /\ loc[f].server \in DOMAIN clients'
                /\ clients'[loc[f].server] = loc[f].client
     /\ clients' # clients
        => \/ Cleaned
           \/ \E f \in Flows : Succeeded(f, {"handshake"})
    ]_vars

C20_Witness ==
  /\ Handshook(Flow1, 1)
  /\ Handshook(Flow2, 2)
  /\ SrvA \in DOMAIN clients
  /\ clients[SrvA] = 2
  /\ 1 \in DOMAIN opened

\* call_tool has returned what it made of the session's answer
Returned == tool_result.pc \in {"returned", "wrapped"}

\* the answer's base value is a non-empty list whose first element has a
\* string `text` that looks like JSON once trimmed
JsonLooking(b) ==
  /\ b.kind = "list" /\ Len(b.items) > 0
  /\ b.items[1].text # <<>>
  /\ b.items[1].text[1].kind = "str"
  /\ LET t == Strip(b.items[1].text[1].str)
     IN t # <<>> /\ (t[1] = "{" \/ t[1] = "[")

\* C21: the value call_tool works on is the answer's `value` whenever the
\* answer exposes one, also when it exposes `content` too; else its
\* `content` when it exposes one; else the answer itself.
C21_UnwrapPrecedence ==
  Returned
  => LET r == tool_result.result
     IN /\ r.value # <<>> => tool_result.unwrapped = unwrap_text(r.value[1])
        /\ (r.value = <<>> /\ r.content # <<>>)
           => tool_result.unwrapped = unwrap_text(r.content[1])
        /\ (r.value = <<>> /\ r.content = <<>>)
           => tool_result.unwrapped = unwrap_text(r)

C21_Witness ==
  /\ Returned
  /\ tool_result.result.value # <<>>
  /\ tool_result.result.content # <<>>
  /\ tool_result.unwrapped = unwrap_text(tool_result.result.value[1])
  /\ tool_result.unwrapped # unwrap_text(tool_result.result.content[1])

\* C22 as stated: for a JSON-looking text of the first element, call_tool
\* returns the parsed structure if the text parses and the trimmed string if
\* it does not.
C22_ParseOrTrimmed ==
  (Returned /\ JsonLooking(unwrap_base(tool_result.result)))
  => LET text == unwrap_base(tool_result.result).items[1].text[1].str
     IN IF json_loads(text) # <<>>
        THEN tool_result.unwrapped = json_loads(text)[1]
        ELSE tool_result.unwrapped = String(Strip(text))

\* C22 amended: for a JSON-looking text of the first element, call_tool
\* returns the parsed structure if the text parses and the text as it is,
\* surrounding whitespace included, if it does not.
C22_ParseOrUnchanged ==
  (Returned /\ JsonLooking(unwrap_base(tool_result.result)))
  => LET text == unwrap_base(tool_result.result).items[1].text[1].str
     IN IF json_loads(text) # <<>>
        THEN /\ tool_result.unwrapped = json_loads(text)[1]
             /\ tool_result.unwrapped.kind \in {"dict", "list"}
        ELSE tool_result.unwrapped = String(text)

C22_Witness ==
  /\ Returned
  /\ JsonLooking(unwrap_base(tool_result.result))
  /\ LET text == unwrap_base(tool_result.result).items[1].text[1].str
     IN /\ json_loads(text) = <<>>
        /\ Strip(text) # text
        /\ tool_result.unwrapped = String(text)

\* C23: when the first element of a non-empty list has a `text` that does
\* not look like JSON, call_tool returns that text value and not the list;
\* when the first element has a `text`, what is returned is the same
\* whatever follows the first element; when the first element has no
\* `text`, or the base value is no non-empty list, the base value is
\* returned as it is.
C23_FirstElementOnly ==
  Returned
  => LET b == unwrap_base(tool_result.result)
         listed == b.kind = "list" /\ Len(b.items) > 0
     IN /\ (listed /\ b.items[1].text # <<>>)
           => /\ ~JsonLooking(b) => tool_result.unwrapped = b.items[1].text[1]
              /\ tool_result.unwrapped = unwrap(List(<<b.items[1]>>))
              /\ tool_result.unwrapped # b
        /\ (listed /\ b.items[1].text = <<>>) => tool_result.unwrapped = b
        /\ ~listed => tool_result.unwrapped = b

C23_Witness ==
  /\ Returned
  /\ LET b == unwrap_base(tool_result.result)
     IN /\ b.kind = "list" /\ Len(b.items) = 2
        /\ b.items[1].text # <<>>
        /\ b.items[2].text # <<>>
        /\ b.items[1].text # b.items[2].text
        /\ ~JsonLooking(b)
        /\ tool_result.unwrapped = b.items[1].text[1]

\* the plain values: mappings, strings and numbers, with no attribute
Plain(v) ==
  /\ v.kind \in {"dict", "str", "int"}
  /\ v.value = <<>> /\ v.content = <<>> /\ v.text = <<>>

C25_OneManager ==
  [][/\ singleton'.created # singleton.created
        => /\ singleton.cache = <<>>
           /\ singleton'.created = singleton.created + 1
     /\ \A f \in Flows :
          /\ singleton'.held[f] # singleton.held[f]
             => singleton'.held[f] = IF singleton.cache # <<>>
                                     THEN singleton.cache[1]
                                     ELSE singleton'.created
          /\ (Began(f, "call_tool") /\ singleton.cache # <<>>)
             => /\ singleton'.held[f] = singleton.cache[1]
                /\ UNCHANGED mgr
                /\ AtLeastInitialized
                     <=> ~(Completed(f, "call_tool") /\ ret'[f].msg = "state")
     /\ singleton.cache # <<>>
        => \/ singleton'.cache = singleton.cache
           \/ singleton'.cache = <<>> /\ state' = UNINITIALIZED
    ]_vars

C25_Witness ==
  /\ singleton.pc = "on"
  /\ singleton.created = 1
  /\ singleton.held[Flow1] = 1
  /\ singleton.held[Flow2] = 1
  /\ ret[Flow1].op = "initialize"
  /\ ret[Flow1].status = "ok"
  /\ ret[Flow2].op = "call_tool"
  /\ ret[Flow2].status = "ok"
  /\ state = CONNECTED

\* C26: when SIGINT or SIGTERM arrives while the script is executing, the
\* process exits with status 130
C26_SignalExits130 ==
  (harness.pc = "exited" /\ harness.signal_at = "script")
    => harness.status = <<130>>

C28_ScriptNeedsValidStart ==
  [][/\ (harness'.ran /\ ~harness.ran)
          => /\ harness.argv = "file"
             /\ Completed(Flow1, "initialize")
             /\ ret'[Flow1].status = "ok"
             /\ state' = INITIALIZED
     /\ (harness.pc = "main" /\ harness.argv # "file")
          => /\ harness'.pc = "exited"
             /\ harness'.status = <<1>>
             /\ ~harness'.ran
             /\ harness'.cleanups = 0
     /\ (/\ harness.pc = "initialize"
         /\ Completed(Flow1, "initialize")
         /\ ret'[Flow1].status # "ok")
          => /\ harness'.pc = "exited"
             /\ harness'.status = <<1>>
             /\ ~harness'.ran
             /\ harness'.cleanups = 0
     /\ harness.pc = "exited" => ~harness'.ran \/ harness.ran
    ]_vars

C28_Witness ==
  /\ harness.pc = "exited"
  /\ harness.argv = "file"
  /\ ~harness.ran
  /\ harness.status = <<1>>
  /\ ret[Flow1].op = "initialize"
  /\ ret[Flow1].msg = "load"

\* str.upper(), for the letters of the alphabet
upper(s) ==
  [i \in 1..Len(s) |->
     IF \E k \in DOMAIN Lowers : Lowers[k] = s[i]
     THEN Uppers[CHOOSE k \in DOMAIN Lowers : Lowers[k] = s[i]]
     ELSE s[i]]

\* some stretch of the description spells a keyword, in any case
HasWord(description, keywords) ==
  /\ description # <<>>
  /\ \E i \in 1..Len(description[1]) : \E j \in i..Len(description[1]) :
       lower(SubSeq(description[1], i, j)) \in keywords

DangerousWord(d) == HasWord(d, DANGEROUS_KEYWORDS)
SafeWord(d) == HasWord(d, SAFE_KEYWORDS)
DangerousName(n) == any_match(DANGEROUS_PATTERNS, n)
SafeName(n) == any_match(SAFE_PATTERNS, n)

\* C29: classify_tool decides in a fixed order: a dangerous keyword in the
\* description gives DANGEROUS whatever the name; else a dangerous name
\* pattern gives DANGEROUS; else a safe name pattern gives SAFE; else a safe
\* keyword in the description gives SAFE; else UNKNOWN; and the case of the
\* letters of name and description does not change the answer
C29_ClassifyPrecedence ==
  classified.pc = "returned"
    => LET n == classified.tool_name
           d == classified.description
           s == classified.safety
       IN /\ s = (IF DangerousWord(d) THEN DANGEROUS
                  ELSE IF DangerousName(n) THEN DANGEROUS
                  ELSE IF SafeName(n) THEN SAFE
                  ELSE IF SafeWord(d) THEN SAFE
                  ELSE UNKNOWN)
          /\ s = classify_tool(upper(n), [i \in DOMAIN d |-> upper(d[i])])
          /\ s = classify_tool(lower(n), [i \in DOMAIN d |-> lower(d[i])])

C29_Witness ==
  /\ classified.pc = "returned"
  /\ SafeName(classified.tool_name)
  /\ ~DangerousName(classified.tool_name)
  /\ DangerousWord(classified.description)
  /\ SafeWord(classified.description)
  /\ classified.description[1] # lower(classified.description[1])
  /\ classified.safety = DANGEROUS

\* the place in `asked` of tool j of server i
RECURSIVE Visited(_, _)
Visited(st, i) ==
  IF i = 0 THEN 0 ELSE Visited(st, i - 1) + Len(st[i].tools)

Occurrences ==
  UNION {{<<i, j>> : j \in DOMAIN discovery.servers_tools[i].tools} :
           i \in DOMAIN discovery.servers_tools}

ToolAt(o) == discovery.servers_tools[o[1]].tools[o[2]]
SafetyAt(o) == classify_tool(ToolAt(o).name, ToolAt(o).description)
AskedAt(o) == discovery.asked[Visited(discovery.servers_tools, o[1] - 1) + o[2]]

\* the tool the result may keep
Qualified(o) ==
  /\ ToolAt(o).name # <<>>
  /\ SafetyAt(o) # UNKNOWN
  /\ ~(discovery.skip_dangerous /\ SafetyAt(o) = DANGEROUS)
  /\ AskedAt(o) = "ok"

SafeToolsOf(i) ==
  LET name == discovery.servers_tools[i].name
  IN IF name \in DOMAIN discovery.servers
     THEN DOMAIN discovery.servers[name].safeTools
     ELSE {}

C31_StateNamesHoldings ==
  /\ state = UNINITIALIZED <=> ~config.loaded
  /\ state = INITIALIZED <=> (config.loaded /\ DOMAIN clients = {})
  /\ state = CONNECTED <=> DOMAIN clients # {}
  /\ \A f \in Flows : ret[f].msg # "not_loaded"

C31_Witness ==
  /\ pc[Flow1] = "idle"
  /\ ret[Flow1].op = "call_tool"
  /\ ret[Flow1].msg = "list"
  /\ state = CONNECTED
  /\ DOMAIN clients = {SrvA}
  /\ config.loaded

\* the call the trace of flow f belongs to: the one in progress, or else the
\* last one completed
OpOf(f) == IF pc[f] # "idle" THEN loc[f].op ELSE ret[f].op

\* C32: nothing is retried: the transport requests of one call_tool hold at
\* most one spawn, one handshake, one list_tools and one call_tool, those of
\* one list_all_tools at most one spawn, one handshake and one list_tools for
\* each enabled server and no call_tool; a failed request is the last one of
\* a call_tool, which ends with an error, and the last one for its server in
\* a list_all_tools.
C32_NoRetry ==
  \A f \in Flows :
    LET tr == trace[f]
        listing == OpOf(f) = "list_all_tools"
    IN /\ OpOf(f) \in {"call_tool", "list_all_tools"} \/ tr = <<>>
       /\ \A i \in 1..Len(tr) : \A j \in 1..Len(tr) :
            (i # j /\ tr[i].ev = tr[j].ev)
              => listing /\ tr[i].server # tr[j].server
       /\ \A i \in 1..Len(tr) :
            /\ tr[i].ev = "call_tool" => ~listing
            /\ listing => \E k \in DOMAIN EnabledNames :
                            EnabledNames[k] = tr[i].server
            /\ tr[i].out = "failed"
                 => IF listing
                    THEN \A j \in (i + 1)..Len(tr) :
                           tr[j].server # tr[i].server
                    ELSE /\ i = Len(tr)
                         /\ pc[f] = "idle"
                         /\ ret[f].status # "ok"

C32_Witness ==
  /\ pc[Flow1] = "idle"
  /\ ret[Flow1].op = "list_all_tools"
  /\ Len(trace[Flow1]) >= 4
  /\ trace[Flow1][2].ev = "handshake"
  /\ trace[Flow1][2].out = "failed"
  /\ trace[Flow1][3].ev = "spawn"
  /\ trace[Flow1][3].server # trace[Flow1][2].server
  /\ trace[Flow1][Len(trace[Flow1])].ev = "list_tools"

\* C33: when a call_tool connected to its server and then fails (the catalog
\* cannot be fetched, the tool is not in it, or the tool's execution fails),
\* the session it registered is still registered after the call and the
\* state is "connected".
C33_ConnectionSurvivesFailure ==
  [][\A f \in Flows :
       (Completed(f, "call_tool") /\ ret'[f].status # "ok")
       => \A i \in 1..Len(trace'[f]) :
            (trace'[f][i].ev = "handshake" /\ trace'[f][i].out = "ok")
            => /\ trace'[f][i].server \in DOMAIN clients'
               /\ clients'[trace'[f][i].server] = trace'[f][i].sid
               /\ trace'[f][i].server \in DOMAIN read_streams'
               /\ state' = CONNECTED
               /\ ret'[f].msg \in {"list", "no_tool", "execute"}]_vars

C33_Witness ==
  /\ pc[Flow1] = "idle"
  /\ ret[Flow1].op = "call_tool"
  /\ ret[Flow1].msg = "execute"
  /\ Len(trace[Flow1]) = 4
  /\ trace[Flow1][2].ev = "handshake"
  /\ trace[Flow1][2].out = "ok"
  /\ trace[Flow1][2].server \in DOMAIN clients
  /\ state = CONNECTED

\* C34: whenever the state is "uninitialized", no session, no cached
\* catalog and no stream is registered, also when cleanup runs while a
\* call_tool is suspended at an await and the call goes on afterwards.
C34_UninitializedHoldsNothing ==
  state = UNINITIALIZED
    => /\ DOMAIN clients = {}
       /\ DOMAIN tool_cache = {}
       /\ DOMAIN read_streams = {}
       /\ DOMAIN write_streams = {}

\* C35: while calls do not overlap, every server with a cached catalog has a
\* registered session.
C35_CacheWithinSessions ==
  DOMAIN tool_cache \subseteq DOMAIN clients

C35_Witness ==
  /\ pc[Flow1] = "idle"
  /\ ret[Flow1].op = "list_all_tools"
  /\ DOMAIN tool_cache = {SrvAA}
  /\ DOMAIN clients = {SrvA, SrvAA}

\* C36: after every completed call, the servers with a registered read
\* stream, those with a registered write stream and those with a registered
\* session are the same, also after a connection whose spawn succeeded and
\* whose handshake failed.
C36_StreamsMatchSessions ==
  (\A f \in Flows : pc[f] = "idle")
    => /\ DOMAIN read_streams = DOMAIN clients
       /\ DOMAIN write_streams = DOMAIN clients

\* C38: a failed connection is not remembered: after the spawn or the
\* handshake for server s failed, no session and no catalog is registered
\* for s, so the next call that needs s, call_tool or a turn of
\* list_all_tools, starts with a spawn for s, and a call that needs a server
\* without a session goes on from a successful handshake to list_tools with
\* the new session.
C38_FailedConnectNotRemembered ==
  [][\A f \in Flows :
       /\ Failed(f, {"spawn", "handshake"})
          => LET s == loc[f].server
                 again == LazyConnect([loc[f] EXCEPT !.client = 0], <<>>,
                                      clients', tool_cache')
             IN /\ s \notin DOMAIN clients'
                /\ s \notin DOMAIN tool_cache'
                /\ again.pc = "spawn"
                /\ again.trace = <<Event("spawn", s, 0)>>
       /\ Succeeded(f, {"handshake"})
          => /\ clients'[loc[f].server] = loc[f].client
             /\ pc'[f] = "list"
             /\ trace'[f][Len(trace'[f])]
                  = Event("list_tools", loc[f].server, loc[f].client)]_vars

C38_Witness ==
  /\ ret[Flow1].op = "call_tool"
  /\ ret[Flow1].msg = "connect"
  /\ pc[Flow1] = "list"
  /\ loc[Flow1].op = "call_tool"
  /\ Len(config.mcpServers) = 1
  /\ loc[Flow1].server = SrvA
  /\ DOMAIN opened = {1, 2}
  /\ opened[1] = SrvA
  /\ clients[SrvA] = 2

\* the number of entries of all servers' safeTools
RECURSIVE SafeToolsCount(_)
SafeToolsCount(i) ==
  IF i = 0 THEN 0
  ELSE SafeToolsCount(i - 1) + Cardinality(SafeToolsOf(i))

NamedTools == {o \in Occurrences : ToolAt(o).name # <<>>}

\* C39: in what build_discovery_config returns, generated_count is the
\* number of entries of all servers' safeTools, skipped_count is the number
\* of names under tools_skipped.dangerous and tools_skipped.unknown, and the
\* two together are the number of tools of the input that have a name.
C39_CountersMatchContents ==
  discovery.pc = "returned"
    => /\ discovery.metadata.generated_count
            = SafeToolsCount(Len(discovery.servers_tools))
       /\ discovery.metadata.skipped_count
            = Len(discovery.tools_skipped.dangerous)
                + Len(discovery.tools_skipped.unknown)
       /\ discovery.metadata.generated_count
            + discovery.metadata.skipped_count = Cardinality(NamedTools)

\* C37: for every server name and tool name without "__", splitting the
\* wrapper's identifier at the first "__" gives back the server name and the
\* tool name.
C37_IdentifierRoundTrip ==
  wrapper.pc \in {"parsed", "rejected"}
    => /\ wrapper.pc = "parsed"
       /\ wrapper.parts = <<wrapper.server_name, wrapper.tool_name>>

====
